---- MODULE Spec2Model ----
(***************************************************************************)
(* Units-of-measure checking for yaiouom.                                  *)
(*                                                                         *)
(* The model follows crates/driver/src/dimanalysis.rs (the refinement pass *)
(* that the driver hooks on typeck_tables_of) and the runtime fallback of  *)
(* crates/yaiouom/src/unit.rs (RuntimeUnit, add_to_runtime).               *)
(*                                                                         *)
(* A type (rustc's Ty) is a record [k, id, idx, nm, args]:                 *)
(*   k = "adt"   : TyAdt(def, substs); id = def.did, args = substs.types() *)
(*   k = "param" : TyParam(param); idx = param.idx, nm = param.name        *)
(*   k = "error" : TyError                                                 *)
(*   k = "prim"  : any other variant of ty.sty                             *)
(* All four carry the same fields so that any two types can be compared.   *)
(***************************************************************************)
EXTENDS Integers, Sequences, FiniteSets, TLC

VARIABLES
    tables,     \* def id -> typeck tables of the default provider: [tainted, body]
    analysed,   \* def ids on which typeck_tables_of has run (the query is memoized)
    diags,      \* diagnostics emitted so far in the session, in order
    compared,   \* per analysed def id: every constraint as it stood at the comparison
    kept,       \* per analysed def id: visitor.constraints when the walk ended
    panicked,   \* def ids whose analysis ended in a panic of the pass
    ran,        \* <<>>, or the one run of main: the unify calls it executed
    display,    \* a unit and, once to_string has run on it, what it returned
    active,     \* def id -> the invocation of the pass in progress on it
    arith,      \* two measures and, once an operator was applied, what it gave
    runtime     \* a RuntimeUnit, the add_to_runtime calls made on it, its text

vars == <<tables, analysed, diags, compared, kept, panicked, ran, display, active, arith, runtime>>

----------------------------------------------------------------------------
(* Marker attributes, dimanalysis.rs:14-17 *)

YAOIOUM_ATTR_CHECK_UNIFY == "rustc_yaiouom_check_unify"
YAOIOUM_ATTR_COMBINATOR_MUL == "rustc_yaiouom_combinator_mul"
YAOIOUM_ATTR_COMBINATOR_INV == "rustc_yaiouom_combinator_inv"
YAOIOUM_ATTR_COMBINATOR_DIMENSIONLESS == "rustc_yaiouom_combinator_dimensionless"

(* tcx.get_attrs(did): the attributes the library puts on its items, and   *)
(* those a user crate puts on two structs of its own without type          *)
(* parameters.                                                             *)
GetAttrs(did) ==
    CASE did = "yaiouom::Mul" -> {YAOIOUM_ATTR_COMBINATOR_MUL}
      [] did = "yaiouom::Inv" -> {YAOIOUM_ATTR_COMBINATOR_INV}
      [] did = "yaiouom::PMul" -> {YAOIOUM_ATTR_COMBINATOR_MUL}
      [] did = "yaiouom::PInv" -> {YAOIOUM_ATTR_COMBINATOR_INV}
      [] did = "yaiouom::PDimensionless" -> {YAOIOUM_ATTR_COMBINATOR_DIMENSIONLESS}
      [] did = "user::Product0" -> {YAOIOUM_ATTR_COMBINATOR_MUL}
      [] did = "user::Inverse0" -> {YAOIOUM_ATTR_COMBINATOR_INV}
      [] did = "yaiouom::Dimensionless" -> {YAOIOUM_ATTR_COMBINATOR_DIMENSIONLESS}
      [] did = "yaiouom::Measure::unify" -> {YAOIOUM_ATTR_CHECK_UNIFY}
      [] OTHER -> {}

ContainsName(attrs, name) == name \in attrs

(* BaseUnit::NAME of the base units: the SI catalogue, the Kilometer of the *)
(* tests, and a user crate's own Meter, which reuses the name "m".          *)
BaseUnitName(did) ==
    CASE did = "yaiouom::si::Meter" -> "m"
      [] did = "yaiouom::si::Second" -> "s"
      [] did = "Kilometer" -> "km"
      [] did = "user::Meter" -> "m"
      [] did = "user::Product0" -> "p0"
      [] did = "user::Inverse0" -> "i0"
      [] OTHER -> "?"

----------------------------------------------------------------------------
(* Types *)

TyAdt(did, substs) == [k |-> "adt", id |-> did, idx |-> 0, nm |-> "", args |-> substs]
TyParam(idx, name) == [k |-> "param", id |-> "", idx |-> idx, nm |-> name, args |-> <<>>]
TyError == [k |-> "error", id |-> "", idx |-> 0, nm |-> "", args |-> <<>>]
TyPrim == [k |-> "prim", id |-> "", idx |-> 0, nm |-> "f64", args |-> <<>>]

Mul(a, b) == TyAdt("yaiouom::Mul", <<a, b>>)
Inv(a) == TyAdt("yaiouom::Inv", <<a>>)
Dimensionless == TyAdt("yaiouom::Dimensionless", <<>>)

(* The same three types as exposed by the embedded logics, logics.rs. *)
PMul(a, b) == TyAdt("yaiouom::PMul", <<a, b>>)
PInv(a) == TyAdt("yaiouom::PInv", <<a>>)
PDimensionless == TyAdt("yaiouom::PDimensionless", <<>>)
Meter == TyAdt("yaiouom::si::Meter", <<>>)
Second == TyAdt("yaiouom::si::Second", <<>>)
Kilometer == TyAdt("Kilometer", <<>>)
UserMeter == TyAdt("user::Meter", <<>>)

(* #[rustc_yaiouom_combinator_mul] struct Product0; and                    *)
(* #[rustc_yaiouom_combinator_inv] struct Inverse0; of a user crate, each  *)
(* with an impl of BaseUnit.                                               *)
Product0 == TyAdt("user::Product0", <<>>)
Inverse0 == TyAdt("user::Inverse0", <<>>)

(* The functions of the analysed crate.  f and g are sibling generic       *)
(* functions fn f<A, B>(..) and fn g<A, B>(..).                            *)
Fns == {"f", "g"}

(* tcx.generics_of(def_id): the type parameters a function declares. *)
GenericsOf(def_id) ==
    << [name |-> "A", index |-> 0, def_id |-> def_id \o "::A"],
       [name |-> "B", index |-> 1, def_id |-> def_id \o "::B"] >>

(* generics.type_param(&param, tcx): looked up by param.idx. *)
TypeParam(generics, param) == generics[param.idx + 1]

(* The type of the idx-th type parameter of a function, as it occurs in    *)
(* the function's typeck tables: TyParam carries the index and the name.   *)
ParamTyOf(def_id, idx) ==
    TyParam(GenericsOf(def_id)[idx + 1].index, GenericsOf(def_id)[idx + 1].name)

(* tcx.def_span(did) and tcx.item_path_str(did) *)
DefSpan(did) == "span of " \o did
ItemPathStr(did) == did

----------------------------------------------------------------------------
(* UnitConstraints, dimanalysis.rs:82-196.                                 *)
(* A side (left or right) is a HashMap<Ty, (HashSet<Span>, i32)>: a        *)
(* function from the types present to [spans, n].  The exponents stay far  *)
(* from the limits of i32 for the types considered here.                   *)

EmptyTable == [t \in {} |-> [spans |-> {}, n |-> 0]]

(* UnitConstraints::from *)
From(span, def_id) ==
    [left |-> EmptyTable, right |-> EmptyTable, def_id |-> def_id, span |-> span]

(* add_one that assigns the multiplicity instead of moving it by one. *)
EntryUpdateAssign(table, ty, span, positive) ==
    LET known == IF ty \in DOMAIN table THEN table[ty] ELSE [spans |-> {}, n |-> 0]
        next == [spans |-> known.spans \cup {span},
                 n |-> IF positive THEN 1 ELSE 0 - 1]
    IN  [t \in (DOMAIN table) \cup {ty} |-> IF t = ty THEN next ELSE table[t]]

(* table.entry(&ty).or_insert_with(|| (HashSet::new(), 0)), then the span  *)
(* is inserted and the multiplicity moves by one.                          *)
EntryUpdate(table, ty, span, positive) ==
    LET known == IF ty \in DOMAIN table THEN table[ty] ELSE [spans |-> {}, n |-> 0]
        next == [spans |-> known.spans \cup {span},
                 n |-> IF positive THEN known.n + 1 ELSE known.n - 1]
    IN  [t \in (DOMAIN table) \cup {ty} |-> IF t = ty THEN next ELSE table[t]]

(* add_one that records the place of the call, source or target, instead  *)
(* of the span it is given.                                                *)
AddOneAtUse(c, ty, span, left, positive) ==
    IF left
    THEN [c EXCEPT !.left = EntryUpdate(c.left, ty, c.span \o ":source", positive)]
    ELSE [c EXCEPT !.right = EntryUpdate(c.right, ty, c.span \o ":target", positive)]

(* UnitConstraints::add_one *)
AddOne(c, ty, span, left, positive) ==
    IF left
    THEN [c EXCEPT !.left = EntryUpdate(c.left, ty, span, positive)]
    ELSE [c EXCEPT !.right = EntryUpdate(c.right, ty, span, positive)]

(* The result of add: Ok(()), Err(()) or a panic, with the constraint as   *)
(* the call left it.                                                       *)
AddResult(res, c) == [res |-> res, c |-> c]

RECURSIVE Add(_, _, _, _)
RECURSIVE AddItems(_, _, _, _)

(* The loop over subst.types() that flips the sign after the first item. *)
AddItemsAlternating(c, items, left, positive) ==
    IF items = <<>>
    THEN AddResult("Ok", c)
    ELSE LET r == Add(c, Head(items), left, positive)
         IN  IF r.res = "Ok"
             THEN AddItems(r.c, Tail(items), left, ~positive)
             ELSE r

(* for item in subst.types() { self.add(&item, left, positive)?; } *)
AddItems(c, items, left, positive) ==
    IF items = <<>>
    THEN AddResult("Ok", c)
    ELSE LET r == Add(c, Head(items), left, positive)
         IN  IF r.res = "Ok"
             THEN AddItems(r.c, Tail(items), left, positive)
             ELSE r

(* add whose inverse branch keeps the sign. *)
AddInvKeepsSign(c, ty, left, positive) ==
    CASE ty.k = "adt" ->
            IF ContainsName(GetAttrs(ty.id), YAOIOUM_ATTR_COMBINATOR_MUL)
            THEN AddItems(c, ty.args, left, positive)
            ELSE IF ContainsName(GetAttrs(ty.id), YAOIOUM_ATTR_COMBINATOR_INV)
            THEN AddItems(c, ty.args, left, positive)
            ELSE IF ContainsName(GetAttrs(ty.id), YAOIOUM_ATTR_COMBINATOR_DIMENSIONLESS)
            THEN AddResult("Ok", c)
            ELSE AddResult("Ok", AddOne(c, ty, DefSpan(ty.id), left, positive))
      [] ty.k = "param" ->
            LET def == TypeParam(GenericsOf(c.def_id), ty)
            IN  AddResult("Ok", AddOne(c, ty, DefSpan(def.def_id), left, positive))
      [] ty.k = "error" -> AddResult("Err", c)
      [] OTHER -> AddResult("Panic", c)

(* add that records nothing for a type parameter. *)
AddSkipsParams(c, ty, left, positive) ==
    CASE ty.k = "adt" ->
            IF ContainsName(GetAttrs(ty.id), YAOIOUM_ATTR_COMBINATOR_MUL)
            THEN AddItems(c, ty.args, left, positive)
            ELSE IF ContainsName(GetAttrs(ty.id), YAOIOUM_ATTR_COMBINATOR_INV)
            THEN AddItems(c, ty.args, left, ~positive)
            ELSE IF ContainsName(GetAttrs(ty.id), YAOIOUM_ATTR_COMBINATOR_DIMENSIONLESS)
            THEN AddResult("Ok", c)
            ELSE AddResult("Ok", AddOne(c, ty, DefSpan(ty.id), left, positive))
      [] ty.k = "param" -> AddResult("Ok", c)
      [] ty.k = "error" -> AddResult("Err", c)
      [] OTHER -> AddResult("Panic", c)

(* UnitConstraints::add *)
Add(c, ty, left, positive) ==
    CASE ty.k = "adt" ->
            IF ContainsName(GetAttrs(ty.id), YAOIOUM_ATTR_COMBINATOR_MUL)
            THEN AddItems(c, ty.args, left, positive)
            ELSE IF ContainsName(GetAttrs(ty.id), YAOIOUM_ATTR_COMBINATOR_INV)
            THEN AddItems(c, ty.args, left, ~positive)
            ELSE IF ContainsName(GetAttrs(ty.id), YAOIOUM_ATTR_COMBINATOR_DIMENSIONLESS)
            THEN AddResult("Ok", c)
            ELSE AddResult("Ok", AddOne(c, ty, DefSpan(ty.id), left, positive))
      [] ty.k = "param" ->
            LET def == TypeParam(GenericsOf(c.def_id), ty)
            IN  AddResult("Ok", AddOne(c, ty, DefSpan(def.def_id), left, positive))
      [] ty.k = "error" -> AddResult("Err", c)
      [] OTHER -> AddResult("Panic", c)

(* retain that keeps every entry. *)
RetainAll(table) == [t \in DOMAIN table |-> table[t]]

(* retain(|_, v| v.1 != 0) *)
Retain(table) ==
    [t \in {u \in DOMAIN table : table[u].n # 0} |-> table[t]]

(* simplify that forgets the right side. *)
SimplifyLeftOnly(c) == [c EXCEPT !.left = Retain(c.left)]

(* UnitConstraints::simplify *)
Simplify(c) == [c EXCEPT !.left = Retain(c.left), !.right = Retain(c.right)]

(* The exponents of a side, without the spans. *)
Exps(table) == [t \in DOMAIN table |-> table[t].n]

----------------------------------------------------------------------------
(* GatherConstraintsVisitor, dimanalysis.rs:198-254.                       *)
(* The visitor is [constraints, compared, panic]: constraints is the       *)
(* field of the struct; compared logs each constraint at the comparison of *)
(* line 218; panic is set once the pass has panicked.                      *)

NewVisitor == [constraints |-> <<>>, compared |-> <<>>, panic |-> FALSE]

(* add_unification without the call to simplify. *)
AddUnificationNoSimplify(v, def_id, left, right, span) ==
    LET c0 == From(span, def_id)
        r1 == Add(c0, left, TRUE, TRUE)
        r2 == Add(r1.c, right, FALSE, TRUE)
        c3 == r2.c
    IN  IF r1.res = "Panic" THEN [v EXCEPT !.panic = TRUE]
        ELSE IF r1.res = "Err" THEN v
        ELSE IF r2.res = "Panic" THEN [v EXCEPT !.panic = TRUE]
        ELSE IF r2.res = "Err" THEN v
        ELSE IF c3.left # c3.right
        THEN [v EXCEPT !.constraints = Append(@, c3), !.compared = Append(@, c3)]
        ELSE [v EXCEPT !.compared = Append(@, c3)]

(* GatherConstraintsVisitor::add_unification *)
AddUnification(v, def_id, left, right, span) ==
    LET c0 == From(span, def_id)
        r1 == Add(c0, left, TRUE, TRUE)
        r2 == Add(r1.c, right, FALSE, TRUE)
        c3 == Simplify(r2.c)
    IN  IF r1.res = "Panic" THEN [v EXCEPT !.panic = TRUE]
        ELSE IF r1.res = "Err" THEN v
        ELSE IF r2.res = "Panic" THEN [v EXCEPT !.panic = TRUE]
        ELSE IF r2.res = "Err" THEN v
        ELSE IF c3.left # c3.right
        THEN [v EXCEPT !.constraints = Append(@, c3), !.compared = Append(@, c3)]
        ELSE [v EXCEPT !.compared = Append(@, c3)]

(* Expressions of a typed body.  An expression is a record                 *)
(* [node, callee, substs, span, kids]: node is the variant of hir::Expr_,  *)
(* callee the def id that type_dependent_defs gives a method call, substs  *)
(* its node_substs, kids the sub-expressions walk_expr visits, in order.   *)

MethodCall(callee, substs, span, kids) ==
    [node |-> "ExprMethodCall", callee |-> callee, substs |-> substs,
     span |-> span, kids |-> kids]

OtherExpr(kids) ==
    [node |-> "Other", callee |-> "", substs |-> <<>>, span |-> "", kids |-> kids]

(* Measure::unify(x), the path form: an ExprCall whose callee is a path   *)
(* resolved to the same operation, with the same substs.                   *)
PathCall(callee, substs, span, kids) ==
    [node |-> "ExprCall", callee |-> callee, substs |-> substs,
     span |-> span, kids |-> kids]

(* || { .. }: kids holds the expressions of the closure's own body, which  *)
(* the HIR keeps as a nested body.                                         *)
ClosureExpr(kids) ==
    [node |-> "ExprClosure", callee |-> "", substs |-> <<>>, span |-> "", kids |-> kids]

(* x.unify() on x: Measure<T, U>, giving Measure<T, V>: substs is [T, U, V] *)
UnifyCall(u, v, span, receiver) ==
    MethodCall("yaiouom::Measure::unify", <<TyPrim, u, v>>, span, <<receiver>>)

(* substs.type_at(i), counted from 0 *)
TypeAt(substs, i) == substs[i + 1]

(* nested_visit_map: the visitor is given no map to nested bodies. *)
NestedVisitMap == "None"

RECURSIVE VisitExpr(_, _, _)
RECURSIVE WalkExprs(_, _, _)

(* intravisit::walk_expr on the sub-expressions; a panic ends the walk *)
WalkExprs(v, def_id, exprs) ==
    IF exprs = <<>> \/ v.panic
    THEN v
    ELSE WalkExprs(VisitExpr(v, def_id, Head(exprs)), def_id, Tail(exprs))

(* visit_expr that does not walk into a unify call it has handled. *)
VisitExprNoDescent(v, def_id, expr) ==
    IF /\ expr.node = "ExprMethodCall"
       /\ ContainsName(GetAttrs(expr.callee), YAOIOUM_ATTR_CHECK_UNIFY)
    THEN AddUnification(v, def_id, TypeAt(expr.substs, 1),
                        TypeAt(expr.substs, 2), expr.span)
    ELSE WalkExprs(v, def_id, expr.kids)

(* intravisit::walk_expr: the sub-expressions in order; for a closure,     *)
(* visit_nested_body, which looks the body up in nested_visit_map and does *)
(* nothing when there is no map.                                           *)
WalkExpr(v, def_id, expr) ==
    IF expr.node = "ExprClosure" /\ NestedVisitMap = "None"
    THEN v
    ELSE WalkExprs(v, def_id, expr.kids)

(* GatherConstraintsVisitor::visit_expr *)
VisitExpr(v, def_id, expr) ==
    LET v1 == IF /\ expr.node = "ExprMethodCall"
                 /\ ContainsName(GetAttrs(expr.callee), YAOIOUM_ATTR_CHECK_UNIFY)
              THEN AddUnification(v, def_id, TypeAt(expr.substs, 1),
                                  TypeAt(expr.substs, 2), expr.span)
              ELSE v
    IN  WalkExpr(v1, def_id, expr)

----------------------------------------------------------------------------
(* Diagnostics, dimanalysis.rs:95-125 and 304-319 *)

RECURSIVE Perms(_)
(* The orders in which a HashMap may hand out the keys in S. *)
Perms(S) ==
    IF S = {}
    THEN {<<>>}
    ELSE UNION {{<<x>> \o p : p \in Perms(S \ {x})} : x \in S}

(* The name describe gives a key of the table. *)
DescribeName(def_id, ty) ==
    IF ty.k = "adt"
    THEN ItemPathStr(ty.id)
    ELSE ItemPathStr(TypeParam(GenericsOf(def_id), ty).def_id)

RECURSIVE DescribeFrom(_, _, _, _, _)
(* The loop of describe over the keys in iteration order `order`. *)
DescribeFrom(buf, first, def_id, table, order) ==
    IF order = <<>>
    THEN buf
    ELSE LET ty == Head(order)
             number == table[ty].n
             exp == IF number = 1 THEN "" ELSE "^" \o ToString(number)
             mul == IF first THEN "" ELSE " * "
         IN  DescribeFrom(buf \o mul \o DescribeName(def_id, ty) \o exp,
                          FALSE, def_id, table, Tail(order))

(* UnitConstraints::describe, for one iteration order of the table *)
Describe(c, left, order) ==
    DescribeFrom("", TRUE, c.def_id, IF left THEN c.left ELSE c.right, order)

(* tcx.hir.span(id) of the analysed declaration *)
HirSpan(def_id) == "span of fn " \o def_id

(* The diagnostics one constraint may give rise to. *)
DiagnosticsOf(c, span) ==
    { [span |-> c.span,
       message |-> "Cannot resolve the following units of measures:",
       expected |-> Describe(c, TRUE, lo),
       found |-> Describe(c, FALSE, ro),
       decl_span |-> span] : lo \in Perms(DOMAIN c.left), ro \in Perms(DOMAIN c.right) }

RECURSIVE EmitAll(_, _)
(* for constraint in visitor.constraints.drain(..) { ... builder.emit(); } *)
EmitAll(constraints, span) ==
    IF constraints = <<>>
    THEN {<<>>}
    ELSE {<<d>> \o rest : d \in DiagnosticsOf(Head(constraints), span),
                          rest \in EmitAll(Tail(constraints), span)}

----------------------------------------------------------------------------
(* DimAnalyzer::analyze, dimanalysis.rs:271-323 *)

(* The declarations of the crate beside the functions: a constant K, a     *)
(* method Foo::m and the closure written in the body of f.                 *)
ConstK == "K"
MethodM == "Foo::m"
ClosureOfF == "f::{{closure}}"

(* The item behind a def id: its kind and tcx.closure_base_def_id. *)
ItemKind(def_id) ==
    CASE def_id = ConstK -> "ItemConst"
      [] def_id = MethodM -> "ImplItemMethod"
      [] def_id = ClosureOfF -> "ExprClosure"
      [] OTHER -> "ItemFn"
ClosureBaseDefId(def_id) == IF def_id = ClosureOfF THEN "f" ELSE def_id

(* primary_body_of: Some((body, fn_decl)) or None *)
PrimaryBodyOf(def_id, tbl) ==
    CASE ItemKind(def_id) \in {"ItemConst", "ItemStatic"} ->
            [some |-> TRUE, body |-> tbl.body, fn_decl |-> FALSE]
      [] ItemKind(def_id) \in {"ItemFn", "ImplItemMethod"} ->
            [some |-> TRUE, body |-> tbl.body, fn_decl |-> TRUE]
      [] OTHER -> [some |-> FALSE, body |-> tbl.body, fn_decl |-> FALSE]

(* analyze without the test of tainted_by_errors. *)
AnalyzeTainted(def_id, tbl) ==
    LET primary == PrimaryBodyOf(def_id, tbl)
    IN  IF ClosureBaseDefId(def_id) # def_id THEN NewVisitor
        ELSE IF ~primary.some THEN [NewVisitor EXCEPT !.panic = TRUE]
        ELSE IF primary.fn_decl THEN VisitExpr(NewVisitor, def_id, primary.body)
        ELSE NewVisitor

(* analyze without the test of closure_base_def_id: the closure's def id   *)
(* is given the body of the function its tables belong to.                 *)
AnalyzeClosures(def_id, tbl) ==
    IF tbl.tainted_by_errors THEN NewVisitor
    ELSE IF ItemKind(ClosureBaseDefId(def_id)) \in {"ItemFn", "ImplItemMethod"}
    THEN VisitExpr(NewVisitor, def_id, tbl.body)
    ELSE NewVisitor

(* The walk analyze makes, or no walk at all on its early returns. *)
Analyze(def_id, tbl) ==
    LET primary == PrimaryBodyOf(def_id, tbl)
    IN  IF tbl.tainted_by_errors THEN NewVisitor
        ELSE IF ClosureBaseDefId(def_id) # def_id THEN NewVisitor
        ELSE IF ~primary.some THEN [NewVisitor EXCEPT !.panic = TRUE]
        ELSE IF primary.fn_decl THEN VisitExpr(NewVisitor, def_id, primary.body)
        ELSE NewVisitor

(* A typeck_tables_of that marks the tables it returns as tainted once the *)
(* analysis has kept a constraint.                                         *)
TypeckTablesOfTainting(id) ==
    /\ ran = <<>>
    /\ panicked = {}
    /\ id \notin analysed
    /\ analysed' = analysed \cup {id}
    /\ LET v == Analyze(id, tables[id])
       IN  /\ compared' = [compared EXCEPT ![id] = v.compared]
           /\ tables' = [tables EXCEPT ![id].tainted_by_errors = @ \/ v.constraints # <<>>]
           /\ IF v.panic
              THEN /\ panicked' = panicked \cup {id}
                   /\ kept' = kept
                   /\ diags' = diags
              ELSE /\ panicked' = panicked
                   /\ kept' = [kept EXCEPT ![id] = v.constraints]
                   /\ \E emitted \in EmitAll(v.constraints, HirSpan(id)) :
                         diags' = diags \o emitted
    /\ UNCHANGED <<ran, display, active, arith, runtime>>

(* typeck_tables_of, main.rs:21-31: the default provider's tables, then    *)
(* the analysis, whose diagnostics go to the session.  The query runs once *)
(* per def id, while the program is being built.                           *)
TypeckTablesOf(id) ==
    /\ ran = <<>>
    /\ panicked = {}
    /\ id \notin analysed
    /\ analysed' = analysed \cup {id}
    /\ LET v == Analyze(id, tables[id])
       IN  /\ compared' = [compared EXCEPT ![id] = v.compared]
           /\ IF v.panic
              THEN /\ panicked' = panicked \cup {id}
                   /\ kept' = kept
                   /\ diags' = diags
              ELSE /\ panicked' = panicked
                   /\ kept' = [kept EXCEPT ![id] = v.constraints]
                   /\ \E emitted \in EmitAll(v.constraints, HirSpan(id)) :
                         diags' = diags \o emitted
    /\ UNCHANGED <<tables, ran, display, active, arith, runtime>>

(* The same pass when the compiler answers the queries of several          *)
(* declarations at once: each invocation has its own DimAnalyzer and its   *)
(* own GatherConstraintsVisitor, and advances by one expression or one     *)
(* diagnostic at a time.  An invocation in progress is [v, todo, drained]: *)
(* its visitor, the expressions still to visit, and the number of          *)
(* constraints already drained.  A panic of the pass aborts the compiler.  *)

(* typeck_tables_of up to the creation of the visitor: the returns of      *)
(* analyze before any walk, or visit_body about to start.                  *)
Begin(id) ==
    /\ ran = <<>>
    /\ panicked = {}
    /\ id \notin analysed
    /\ id \notin DOMAIN active
    /\ LET tbl == tables[id]
           primary == PrimaryBodyOf(id, tbl)
       IN  IF tbl.tainted_by_errors \/ ClosureBaseDefId(id) # id
           THEN /\ analysed' = analysed \cup {id}
                /\ UNCHANGED <<panicked, active>>
           ELSE IF ~primary.some
           THEN /\ analysed' = analysed \cup {id}
                /\ panicked' = panicked \cup {id}
                /\ UNCHANGED active
           ELSE IF primary.fn_decl
           THEN /\ active' = active @@ (id :> [v |-> NewVisitor,
                                              todo |-> <<primary.body>>,
                                              drained |-> 0])
                /\ UNCHANGED <<analysed, panicked>>
           ELSE /\ analysed' = analysed \cup {id}
                /\ UNCHANGED <<panicked, active>>
    /\ UNCHANGED <<tables, diags, compared, kept, ran, display, arith, runtime>>

(* The invocations in progress but the one on id. *)
Others(id) == [j \in (DOMAIN active) \ {id} |-> active[j]]

(* One visit_expr whose accumulator is shared by the invocations in        *)
(* progress.                                                               *)
StepShared(id) ==
    /\ ran = <<>>
    /\ panicked = {}
    /\ id \in DOMAIN active
    /\ active[id].todo # <<>>
    /\ LET expr == Head(active[id].todo)
           v1 == IF /\ expr.node = "ExprMethodCall"
                    /\ ContainsName(GetAttrs(expr.callee), YAOIOUM_ATTR_CHECK_UNIFY)
                 THEN AddUnification(active[id].v, id, TypeAt(expr.substs, 1),
                                     TypeAt(expr.substs, 2), expr.span)
                 ELSE active[id].v
           kids == IF expr.node = "ExprClosure" /\ NestedVisitMap = "None"
                   THEN <<>> ELSE expr.kids
       IN  IF v1.panic
           THEN /\ analysed' = analysed \cup {id}
                /\ panicked' = panicked \cup {id}
                /\ compared' = [compared EXCEPT ![id] = v1.compared]
                /\ active' = Others(id)
           ELSE /\ active' = [j \in DOMAIN active |->
                                 IF j = id
                                 THEN [active[id] EXCEPT
                                          !.v = v1, !.todo = kids \o Tail(active[id].todo)]
                                 ELSE [active[j] EXCEPT !.v = v1]]
                /\ UNCHANGED <<analysed, panicked, compared>>
    /\ UNCHANGED <<tables, diags, kept, ran, display, arith, runtime>>

(* One visit_expr of the walk of id: the match on the expression, then its *)
(* sub-expressions put before the expressions still to visit.              *)
Step(id) ==
    /\ ran = <<>>
    /\ panicked = {}
    /\ id \in DOMAIN active
    /\ active[id].todo # <<>>
    /\ LET expr == Head(active[id].todo)
           v1 == IF /\ expr.node = "ExprMethodCall"
                    /\ ContainsName(GetAttrs(expr.callee), YAOIOUM_ATTR_CHECK_UNIFY)
                 THEN AddUnification(active[id].v, id, TypeAt(expr.substs, 1),
                                     TypeAt(expr.substs, 2), expr.span)
                 ELSE active[id].v
           kids == IF expr.node = "ExprClosure" /\ NestedVisitMap = "None"
                   THEN <<>> ELSE expr.kids
       IN  IF v1.panic
           THEN /\ analysed' = analysed \cup {id}
                /\ panicked' = panicked \cup {id}
                /\ compared' = [compared EXCEPT ![id] = v1.compared]
                /\ active' = Others(id)
           ELSE /\ active' = [active EXCEPT
                                 ![id].v = v1, ![id].todo = kids \o Tail(active[id].todo)]
                /\ UNCHANGED <<analysed, panicked, compared>>
    /\ UNCHANGED <<tables, diags, kept, ran, display, arith, runtime>>

(* One turn of the loop over visitor.constraints.drain(..): builder.emit() *)
Emit(id) ==
    /\ ran = <<>>
    /\ panicked = {}
    /\ id \in DOMAIN active
    /\ active[id].todo = <<>>
    /\ active[id].drained < Len(active[id].v.constraints)
    /\ \E d \in DiagnosticsOf(active[id].v.constraints[active[id].drained + 1], HirSpan(id)) :
          diags' = Append(diags, d)
    /\ active' = [active EXCEPT ![id].drained = @ + 1]
    /\ UNCHANGED <<tables, analysed, compared, kept, panicked, ran, display, arith, runtime>>

(* analyze returns, and typeck_tables_of after it *)
Return(id) ==
    /\ ran = <<>>
    /\ panicked = {}
    /\ id \in DOMAIN active
    /\ active[id].todo = <<>>
    /\ active[id].drained = Len(active[id].v.constraints)
    /\ analysed' = analysed \cup {id}
    /\ compared' = [compared EXCEPT ![id] = active[id].v.compared]
    /\ kept' = [kept EXCEPT ![id] = active[id].v.constraints]
    /\ active' = Others(id)
    /\ UNCHANGED <<tables, diags, panicked, ran, display, arith, runtime>>

----------------------------------------------------------------------------
(* The runtime fallback, unit.rs:29-61, 151-164, 451-468, 516-578.         *)
(* RuntimeUnit.dimensions is a HashMap<TypeId, (String, i32)>: a function  *)
(* from the def ids of base units to [name, n].                            *)

RuntimeUnitNew == [t \in {} |-> [name |-> "", n |-> 0]]

(* A key made of the unit's NAME instead of its TypeId. *)
TypeIdByName(ty) == BaseUnitName(ty.id)

(* TypeId::of::<T>() of a base unit without type arguments *)
TypeIdOf(ty) == ty.id

(* add_to_runtime of a base unit that keeps an entry whose exponent        *)
(* reached 0.                                                              *)
BaseAddKeepsZero(repr, ty, positive) ==
    LET id == TypeIdOf(ty)
        entry == IF id \in DOMAIN repr THEN repr[id]
                 ELSE [name |-> BaseUnitName(ty.id), n |-> 0]
        next == [entry EXCEPT !.n = IF positive THEN @ + 1 ELSE @ - 1]
    IN  [t \in (DOMAIN repr) \cup {id} |-> IF t = id THEN next ELSE repr[t]]

(* impl<T: BaseUnit> Unit for T: add_to_runtime *)
BaseAddToRuntime(repr, ty, positive) ==
    LET id == TypeIdOf(ty)
        entry == IF id \in DOMAIN repr THEN repr[id]
                 ELSE [name |-> BaseUnitName(ty.id), n |-> 0]
        next == [entry EXCEPT !.n = IF positive THEN @ + 1 ELSE @ - 1]
        is_empty == next.n = 0
    IN  IF is_empty
        THEN [t \in (DOMAIN repr) \ {id} |-> repr[t]]
        ELSE [t \in (DOMAIN repr) \cup {id} |-> IF t = id THEN next ELSE repr[t]]

RECURSIVE AddToRuntime(_, _, _)
(* Unit::add_to_runtime for Mul<A, B>, Inv<A>, Dimensionless and base units *)
AddToRuntime(repr, ty, positive) ==
    CASE ty.id \in {"yaiouom::Mul", "yaiouom::PMul"} ->
            AddToRuntime(AddToRuntime(repr, ty.args[1], positive), ty.args[2], positive)
      [] ty.id \in {"yaiouom::Inv", "yaiouom::PInv"} -> AddToRuntime(repr, ty.args[1], ~positive)
      [] ty.id \in {"yaiouom::Dimensionless", "yaiouom::PDimensionless"} -> repr
      [] OTHER -> BaseAddToRuntime(repr, ty, positive)

(* Unit::as_runtime *)
AsRuntime(ty) == AddToRuntime(RuntimeUnitNew, ty, TRUE)

RECURSIVE Filtered(_, _, _)
(* filter_map over dimensions.values() in iteration order: the texts of    *)
(* the entries with a positive exponent, or of those with a negative one.  *)
Filtered(repr, order, positives) ==
    IF order = <<>>
    THEN <<>>
    ELSE LET x == repr[Head(order)]
             rest == Filtered(repr, Tail(order), positives)
         IN  IF positives
             THEN IF x.n = 1 THEN <<x.name>> \o rest
                  ELSE IF x.n > 1 THEN <<x.name \o "^" \o ToString(x.n)>> \o rest
                  ELSE rest
             ELSE IF x.n <= -1 THEN <<x.name \o "^" \o ToString(x.n)>> \o rest
                  ELSE rest

RECURSIVE Format(_, _)
(* itertools' format(sep) *)
Format(items, sep) ==
    IF items = <<>> THEN ""
    ELSE IF Len(items) = 1 THEN items[1]
    ELSE items[1] \o sep \o Format(Tail(items), sep)

(* A to_string in one pass over the values, in iteration order. *)
ToStringOnePass(repr, order) ==
    [order |-> order,
     panic |-> \E t \in DOMAIN repr : repr[t].n = 0,
     text |-> Format([i \in DOMAIN order |->
                         IF repr[order[i]].n = 1 THEN repr[order[i]].name
                         ELSE repr[order[i]].name \o "^" \o ToString(repr[order[i]].n)],
                     " * ")]

(* RuntimeUnit::to_string when the HashMap hands out its keys in `order`:  *)
(* a value of 0 panics; the positives, chained with the negatives.         *)
ToStringOf(repr, order) ==
    [order |-> order,
     panic |-> \E t \in DOMAIN repr : repr[t].n = 0,
     text |-> Format(Filtered(repr, order, TRUE) \o Filtered(repr, order, FALSE), " * ")]

(* The value type T of the measures: i8.  A result out of range panics    *)
(* when the build checks overflow and wraps otherwise; a division by zero, *)
(* and MIN / -1, panic in every build.                                     *)
TMin == -128
TMax == 127
Wrap(n) == ((n - TMin) % (TMax - TMin + 1)) + TMin

(* <T as std::ops::Mul>::mul *)
TMul(x, y, overflow_checks) ==
    [panic |-> overflow_checks /\ (x * y < TMin \/ x * y > TMax),
     value |-> Wrap(x * y)]

(* <T as std::ops::Div>::div: the quotient rounded toward zero *)
TDiv(x, y, overflow_checks) ==
    IF y = 0 \/ (x = TMin /\ y = -1)
    THEN [panic |-> TRUE, value |-> 0]
    ELSE LET abs(n) == IF n < 0 THEN 0 - n ELSE n
             q == abs(x) \div abs(y)
         IN  [panic |-> FALSE, value |-> IF (x < 0) = (y < 0) THEN q ELSE 0 - q]

(* impl Mul<T> for Measure<T, U> *)
ScalarMulOf(self, rhs, overflow_checks) ==
    LET r == TMul(self.value, rhs, overflow_checks)
    IN  [panic |-> r.panic, result |-> [value |-> r.value, unit |-> self.unit]]

(* impl Mul<Measure<T, V>> for Measure<T, U> *)
MeasureMulOf(self, rhs, overflow_checks) ==
    LET r == TMul(self.value, rhs.value, overflow_checks)
    IN  [panic |-> r.panic, result |-> [value |-> r.value, unit |-> Mul(self.unit, rhs.unit)]]

(* A division whose output unit is the product of the two units. *)
MeasureDivNoInv(self, rhs, overflow_checks) ==
    LET r == TDiv(self.value, rhs.value, overflow_checks)
    IN  [panic |-> r.panic, result |-> [value |-> r.value, unit |-> Mul(self.unit, rhs.unit)]]

(* impl Div<Measure<T, V>> for Measure<T, U> *)
MeasureDivOf(self, rhs, overflow_checks) ==
    LET r == TDiv(self.value, rhs.value, overflow_checks)
    IN  [panic |-> r.panic,
         result |-> [value |-> r.value, unit |-> Mul(self.unit, Inv(rhs.unit))]]

(* impl Div<T> for Measure<T, U> *)
ScalarDivOf(self, rhs, overflow_checks) ==
    LET r == TDiv(self.value, rhs, overflow_checks)
    IN  [panic |-> r.panic, result |-> [value |-> r.value, unit |-> self.unit]]

(* No operator is being applied. *)
NoArith == [a |-> [value |-> 0, unit |-> Dimensionless],
            b |-> [value |-> 0, unit |-> Dimensionless], out |-> <<>>]

(* No unit is being displayed. *)
NoDisplay == [unit |-> Dimensionless, out |-> <<>>]

RECURSIVE Instantiate(_, _)
(* A unit type of a generic function once its type parameters are replaced *)
(* by the types inst[idx + 1] the function is instantiated with.           *)
Instantiate(ty, inst) ==
    IF ty.k = "param"
    THEN inst[ty.idx + 1]
    ELSE [ty EXCEPT !.args = [i \in DOMAIN ty.args |-> Instantiate(ty.args[i], inst)]]

(* Measure::new(value) of unit U *)
MeasureNew(value, u) == [value |-> value, unit |-> u]

(* A unify without the debug assertion. *)
MeasureUnifyNoAssert(self, v, span, debug_assertions) ==
    [span |-> span, from |-> AsRuntime(self.unit), to |-> AsRuntime(v),
     panic |-> FALSE,
     result |-> [value |-> self.value, unit |-> v]]

(* Measure::unify: debug_assert_eq!(U::as_runtime(), V::as_runtime()),    *)
(* then Measure { value: self.value, unit: PhantomData } of unit V.  The   *)
(* entry of the run's log holds both representations, whether the          *)
(* assertion panicked, and the measure returned when it did not.           *)
MeasureUnify(self, v, span, debug_assertions) ==
    [span |-> span, from |-> AsRuntime(self.unit), to |-> AsRuntime(v),
     panic |-> debug_assertions /\ AsRuntime(self.unit) # AsRuntime(v),
     result |-> [value |-> self.value, unit |-> v]]

RECURSIVE EvalExpr(_, _, _, _, _)
RECURSIVE EvalExprs(_, _, _, _, _)

(* The sub-expressions are evaluated in order; a panic ends the run. *)
EvalExprs(log, exprs, inst, value, debug_assertions) ==
    IF exprs = <<>> \/ (log # <<>> /\ log[Len(log)].panic)
    THEN log
    ELSE EvalExprs(EvalExpr(log, Head(exprs), inst, value, debug_assertions),
                   Tail(exprs), inst, value, debug_assertions)

(* Running an expression: the receiver and arguments first, then the call. *)
(* The receiver of a unify is the measure its last sub-expression returned *)
(* when that is a unify, and a measure of the function's argument if not.  *)
EvalExpr(log, expr, inst, value, debug_assertions) ==
    LET log1 == EvalExprs(log, expr.kids, inst, value, debug_assertions)
        u == Instantiate(TypeAt(expr.substs, 1), inst)
        self == IF Len(log1) > Len(log)
                THEN MeasureNew(log1[Len(log1)].result.value, u)
                ELSE MeasureNew(value, u)
    IN  IF log1 # <<>> /\ log1[Len(log1)].panic
        THEN log1
        ELSE IF expr.callee = "yaiouom::Measure::unify"
        THEN Append(log1, MeasureUnify(self, Instantiate(TypeAt(expr.substs, 2), inst),
                                       expr.span, debug_assertions))
        ELSE log1

(* The closed unit types main instantiates <A, B> with when it calls f. *)
Instances == {<<Meter, Second>>, <<Meter, Meter>>}

(* The number main builds f's measure from, for each instantiation. *)
ArgumentOf(inst) == IF inst[1] = inst[2] THEN 0 ELSE 7

RECURSIVE ImplementsUnit(_)
(* The types with an impl of Unit: Dimensionless, Mul<A, B>, Inv<A>, the   *)
(* base units, and the type parameters bounded by Unit.                    *)
ImplementsUnit(ty) ==
    \/ ty.k = "param"
    \/ ty.k = "adt" /\ \A i \in DOMAIN ty.args : ImplementsUnit(ty.args[i])

RECURSIVE UnifyCalls(_)
(* Every call of unify in a body, the bodies of its closures included. *)
UnifyCalls(expr) ==
    (IF expr.callee = "yaiouom::Measure::unify" THEN {expr} ELSE {})
    \cup UNION {UnifyCalls(expr.kids[i]) : i \in DOMAIN expr.kids}

(* rustc's own type checking accepts the crate: no table is tainted and    *)
(* unify<V: Unit> is called on units only.                                 *)
TypeChecks ==
    \A id \in DOMAIN tables :
        /\ ~tables[id].tainted_by_errors
        /\ \A call \in UnifyCalls(tables[id].body) :
              ImplementsUnit(TypeAt(call.substs, 1)) /\ ImplementsUnit(TypeAt(call.substs, 2))

(* fn main() { let _ = f(..); }, as in the tests.  The program runs once   *)
(* it is built: by vanilla rustc, which analyses nothing, or by the         *)
(* checker, once every body is analysed and no diagnostic was emitted.      *)
RunMain ==
    /\ ran = <<>>
    /\ TypeChecks
    /\ \/ analysed = {}
       \/ analysed = DOMAIN tables /\ diags = <<>> /\ panicked = {}
    /\ \E inst \in Instances, debug_assertions \in BOOLEAN :
          ran' = <<[inst |-> inst, value |-> ArgumentOf(inst),
                    debug_assertions |-> debug_assertions,
                    log |-> EvalExpr(<<>>, tables["f"].body, inst, ArgumentOf(inst),
                                     debug_assertions)]>>
    /\ UNCHANGED <<tables, analysed, diags, compared, kept, panicked, display, active, arith, runtime>>

(* U::as_runtime().to_string() on the unit being displayed *)
ToStringCall ==
    /\ display.out = <<>>
    /\ \E order \in Perms(DOMAIN AsRuntime(display.unit)) :
          display' = [display EXCEPT !.out = <<ToStringOf(AsRuntime(display.unit), order)>>]
    /\ UNCHANGED <<tables, analysed, diags, compared, kept, panicked, ran, active, arith, runtime>>

(* A RuntimeUnit::new() on which no call was made yet. *)
NoRuntime == [repr |-> RuntimeUnitNew, calls |-> <<>>, out |-> <<>>]

(* a * b, a / b, a * b.value and a / b.value on the two measures, in a     *)
(* build with or without overflow checks.                                  *)
Applied(op, r, overflow_checks) ==
    /\ arith.out = <<>>
    /\ arith' = [arith EXCEPT !.out = <<[op |-> op, overflow_checks |-> overflow_checks,
                                         panic |-> r.panic, result |-> r.result]>>]
    /\ UNCHANGED <<tables, analysed, diags, compared, kept, panicked, ran, display, active,
                   runtime>>

MeasureMul ==
    \E oc \in BOOLEAN : Applied("a * b", MeasureMulOf(arith.a, arith.b, oc), oc)

MeasureDiv ==
    \E oc \in BOOLEAN : Applied("a / b", MeasureDivOf(arith.a, arith.b, oc), oc)

ScalarMul ==
    \E oc \in BOOLEAN : Applied("a * n", ScalarMulOf(arith.a, arith.b.value, oc), oc)

ScalarDiv ==
    \E oc \in BOOLEAN : Applied("a / n", ScalarDivOf(arith.a, arith.b.value, oc), oc)

----------------------------------------------------------------------------
(* The typed bodies the pass is run on. *)

(* The largest unit type, counted in type constructors, of a body with one *)
(* unify call, and of a body with a chain of two.                          *)
MaxSize == 3
MaxChainSize == 1

(* The unit types without arguments: the identity, base units, and the     *)
(* type parameters of f.                                                   *)
Leaves == {Dimensionless, Meter, Second, ParamTyOf("f", 0), ParamTyOf("f", 1)}

(* Base units only, two of them with the same NAME. *)
BaseLeaves == {Meter, UserMeter, Second}

RECURSIVE TysOfSize(_, _)
(* The unit types over `leaves` made of exactly n type constructors. *)
TysOfSize(leaves, n) ==
    IF n <= 1
    THEN leaves
    ELSE {Inv(a) : a \in TysOfSize(leaves, n - 1)}
         \cup UNION {{Mul(a, b) : a \in TysOfSize(leaves, i),
                                  b \in TysOfSize(leaves, n - 1 - i)} : i \in 1..(n - 2)}

UnitTys(leaves, max) == UNION {TysOfSize(leaves, n) : n \in 1..max}

(* (distance / duration).unify() *)
SingleBody(fn, u, v) ==
    OtherExpr(<<UnifyCall(u, v, fn \o ":1",
                          MethodCall("core::ops::Div::div", <<>>, "", <<>>))>>)

(* (distance / duration).unify::<W>().unify(): the outer call is visited   *)
(* first, its receiver, the inner call, after it.                          *)
ChainBody(fn, u, w, v) ==
    OtherExpr(<<UnifyCall(w, v, fn \o ":1",
                          UnifyCall(u, w, fn \o ":2", OtherExpr(<<>>)))>>)

(* The bodies of the repository's tests. *)
TestBodies(fn) ==
    LET A == ParamTyOf(fn, 0)
        B == ParamTyOf(fn, 1)
        speed == Mul(Meter, Inv(Second))
    IN  { SingleBody(fn, speed, speed),
          SingleBody(fn, Mul(Mul(Dimensionless, Inv(Second)), Meter), speed),
          SingleBody(fn, speed, Mul(Inv(Second), Meter)),
          SingleBody(fn, Mul(Mul(Meter, Second), Inv(Second)), Meter),
          SingleBody(fn, Mul(A, Inv(B)), Mul(A, Inv(B))),
          ChainBody(fn, Mul(A, Inv(B)), Mul(A, Inv(B)), Mul(A, Inv(B))),
          ChainBody(fn, Mul(A, Inv(B)), Mul(A, Inv(Second)), Mul(A, Inv(B))),
          SingleBody(fn, speed, Mul(Kilometer, Inv(Second))),
          SingleBody(fn, Mul(Mul(Dimensionless, Inv(Second)), Kilometer), speed) }

(* Quotients and their mirror images: the two generators cancel when they *)
(* are the same.                                                           *)
QuotientTys ==
    LET gens == {Meter, Second, ParamTyOf("f", 0)}
    IN  {Mul(a, Inv(b)) : a \in gens, b \in gens}
        \cup {Mul(Inv(a), b) : a \in gens, b \in gens}
        \cup {Mul(Mul(a, b), Inv(b)) : a \in gens, b \in gens}

(* The bodies of f, kind by kind. *)
FBodies ==
    << {SingleBody("f", u, v) : u \in UnitTys(Leaves, MaxSize), v \in UnitTys(Leaves, MaxSize)},
       {SingleBody("f", u, v) : u \in UnitTys(BaseLeaves, MaxSize),
                                v \in UnitTys(BaseLeaves, MaxSize)},
       {ChainBody("f", u, w, v) : u \in UnitTys(Leaves, MaxChainSize),
                                  w \in UnitTys(Leaves, MaxChainSize),
                                  v \in UnitTys(Leaves, MaxChainSize)},
       {SingleBody("f", u, v) : u \in QuotientTys, v \in QuotientTys},
       TestBodies("f") >>

GBodies ==
    {SingleBody("g", ParamTyOf("g", 0), ParamTyOf("g", 0)),
     SingleBody("g", ParamTyOf("g", 0), ParamTyOf("g", 1))}

Tables(tainted, body) == [tainted_by_errors |-> tainted, body |-> body]

Init ==
    /\ \E kind \in DOMAIN FBodies : \E fb \in FBodies[kind], gb \in GBodies :
          tables = [id \in Fns |-> IF id = "f" THEN Tables(FALSE, fb) ELSE Tables(FALSE, gb)]
    /\ analysed = {}
    /\ diags = <<>>
    /\ compared = [id \in Fns |-> <<>>]
    /\ kept = [id \in Fns |-> <<>>]
    /\ panicked = {}
    /\ ran = <<>>
    /\ display = NoDisplay
    /\ active = <<>>
    /\ arith = NoArith
    /\ runtime = NoRuntime

Next ==
    \/ \E id \in DOMAIN tables : TypeckTablesOf(id)
    \/ RunMain

Spec == Init /\ [][Next]_vars

(* The algebra bodies: unify calls built from three unit types a, b and c, *)
(* so that one analysis normalizes a, b, their product both ways, the two  *)
(* nestings of a triple product, inverses and cancelling products.  a has  *)
(* at most MaxAlgebraSize type constructors, b two fewer, c is a leaf.     *)
MaxAlgebraSize == 3

AlgebraLeaves == {Dimensionless, Meter, Second, ParamTyOf("f", 0)}

AlgebraCall(u, v, span) ==
    UnifyCall(u, v, span, MethodCall("core::ops::Mul::mul", <<>>, "", <<>>))

AlgebraBody(a, b, c) ==
    OtherExpr(<< AlgebraCall(a, a, "f:1"),
                 AlgebraCall(b, b, "f:2"),
                 AlgebraCall(Mul(b, a), Mul(a, b), "f:3"),
                 AlgebraCall(Mul(Mul(a, b), c), Mul(a, Mul(b, c)), "f:4"),
                 AlgebraCall(Inv(a), Inv(a), "f:5"),
                 AlgebraCall(Inv(Inv(a)), a, "f:6"),
                 AlgebraCall(Mul(a, Inv(a)), Dimensionless, "f:7"),
                 AlgebraCall(Mul(Mul(a, b), Inv(b)), a, "f:8") >>)

AlgebraBodies ==
    {AlgebraBody(a, b, c) : a \in UnitTys(AlgebraLeaves, MaxAlgebraSize),
                            b \in UnitTys(AlgebraLeaves, MaxAlgebraSize - 2),
                            c \in AlgebraLeaves}

InitAlgebra ==
    /\ \E fb \in AlgebraBodies :
          tables = [id \in Fns |-> IF id = "f" THEN Tables(FALSE, fb)
                                   ELSE Tables(FALSE, SingleBody("g", ParamTyOf("g", 0),
                                                                 ParamTyOf("g", 0)))]
    /\ analysed = {}
    /\ diags = <<>>
    /\ compared = [id \in Fns |-> <<>>]
    /\ kept = [id \in Fns |-> <<>>]
    /\ panicked = {}
    /\ ran = <<>>
    /\ display = NoDisplay
    /\ active = <<>>
    /\ arith = NoArith
    /\ runtime = NoRuntime

SpecAlgebra == InitAlgebra /\ [][Next]_vars

(* The item bodies: two unify calls, the first in method form, the second *)
(* in method form, in path form or inside a closure, placed in a function, *)
(* a method or a constant; their unit types are sound, mismatching, hold   *)
(* an error type or hold a type that is no unit.                           *)
ItemPairs ==
    { <<Meter, Meter>>, <<Meter, Second>>,
      <<TyError, Second>>, <<Mul(Meter, TyError), Second>>, <<Meter, Inv(TyError)>>,
      <<TyPrim, Meter>>, <<Meter, Mul(Second, TyPrim)>>,
      <<Mul(TyPrim, TyError), Meter>>, <<TyError, TyPrim>> }

PlainPairs == { <<Meter, Meter>>, <<Meter, Second>> }

MethodForm(pair, span) == UnifyCall(pair[1], pair[2], span, OtherExpr(<<>>))
PathForm(pair, span) ==
    PathCall("yaiouom::Measure::unify", <<TyPrim, pair[1], pair[2]>>, span, <<OtherExpr(<<>>)>>)
ClosureForm(pair, span) == ClosureExpr(<<MethodForm(pair, span)>>)

ItemBodies(owner) ==
    LET second == {MethodForm(q, owner \o ":2") : q \in ItemPairs}
                  \cup {PathForm(q, owner \o ":2") : q \in PlainPairs}
                  \cup {ClosureForm(q, owner \o ":2") : q \in PlainPairs}
    IN  {OtherExpr(<<MethodForm(p, owner \o ":1"), x>>) : p \in ItemPairs, x \in second}

EmptyBody == OtherExpr(<<>>)

RECURSIVE HasClosure(_)
HasClosure(expr) ==
    expr.node = "ExprClosure" \/ \E i \in DOMAIN expr.kids : HasClosure(expr.kids[i])

(* The tables of a crate whose declaration `owner` has the given body: the *)
(* query for a closure gives the tables of the function it is written in.  *)
ItemTables(owner, tainted, body) ==
    LET ids == {"f", ConstK, MethodM}
               \cup (IF owner = "f" /\ HasClosure(body) THEN {ClosureOfF} ELSE {})
    IN  [id \in ids |-> IF id = owner \/ (id = ClosureOfF /\ owner = "f")
                        THEN Tables(tainted, body)
                        ELSE Tables(FALSE, EmptyBody)]

InitItems ==
    /\ \E owner \in {"f", ConstK, MethodM}, tainted \in BOOLEAN :
          \E body \in ItemBodies(owner) : tables = ItemTables(owner, tainted, body)
    /\ analysed = {}
    /\ diags = <<>>
    /\ compared = [id \in DOMAIN tables |-> <<>>]
    /\ kept = [id \in DOMAIN tables |-> <<>>]
    /\ panicked = {}
    /\ ran = <<>>
    /\ display = NoDisplay
    /\ active = <<>>
    /\ arith = NoArith
    /\ runtime = NoRuntime

SpecItems == InitItems /\ [][Next]_vars

(* The units displayed: the closed unit types of up to MaxDisplaySize      *)
(* type constructors over three base units and Dimensionless.              *)
MaxDisplaySize == 6
DisplayLeaves == {Meter, Second, Kilometer, Dimensionless}

InitDisplay ==
    /\ tables = [id \in Fns |-> Tables(FALSE, OtherExpr(<<>>))]
    /\ analysed = {}
    /\ diags = <<>>
    /\ compared = [id \in Fns |-> <<>>]
    /\ kept = [id \in Fns |-> <<>>]
    /\ panicked = {}
    /\ ran = <<>>
    /\ \E unit \in UnitTys(DisplayLeaves, MaxDisplaySize) :
          display = [unit |-> unit, out |-> <<>>]
    /\ active = <<>>
    /\ arith = NoArith
    /\ runtime = NoRuntime

NextDisplay == ToStringCall

SpecDisplay == InitDisplay /\ [][NextDisplay]_vars

(* The crates whose declarations are analysed at once: f with a chain of   *)
(* two unify calls beside g, and the item bodies of f beside a constant, a *)
(* method and f's closure.                                                 *)
InterleavedLeaves == {ParamTyOf("f", 0), Meter, Second}

InterleavedCrates ==
    {[id \in Fns |-> IF id = "f" THEN Tables(FALSE, ChainBody("f", u, w, v))
                                 ELSE Tables(FALSE, gb)] :
        u \in InterleavedLeaves, w \in InterleavedLeaves, v \in InterleavedLeaves,
        gb \in GBodies}
    \cup {ItemTables("f", tainted, OtherExpr(<<MethodForm(<<Meter, Second>>, "f:1"), x>>)) :
            tainted \in BOOLEAN,
            x \in {MethodForm(<<Second, Meter>>, "f:2"),
                   MethodForm(<<TyPrim, Meter>>, "f:2"),
                   ClosureForm(<<Meter, Second>>, "f:2")}}

InitInterleaved ==
    /\ tables \in InterleavedCrates
    /\ analysed = {}
    /\ diags = <<>>
    /\ compared = [id \in DOMAIN tables |-> <<>>]
    /\ kept = [id \in DOMAIN tables |-> <<>>]
    /\ panicked = {}
    /\ ran = <<>>
    /\ display = NoDisplay
    /\ active = <<>>
    /\ arith = NoArith
    /\ runtime = NoRuntime

NextInterleaved ==
    \E id \in DOMAIN tables : Begin(id) \/ Step(id) \/ Emit(id) \/ Return(id)

SpecInterleaved == InitInterleaved /\ [][NextInterleaved]_vars

(* The compiler runs every query it has started to its end: as long as     *)
(* some invocation can advance, one does.                                  *)
SpecInterleavedFair == SpecInterleaved /\ WF_vars(NextInterleaved)

(* The units rendered: every unit type of up to MaxRenderSize type         *)
(* constructors over a type parameter, two base units and Dimensionless,   *)
(* and some quotients, powers and units that cancel.  f's body unifies two *)
(* of them; a closed one is displayed at run time.                         *)
MaxRenderSize == 2
RenderLeaves == {ParamTyOf("f", 0), Meter, Second, Dimensionless}
RenderClosed ==
    {Dimensionless, Meter, Inv(Second), Mul(Meter, Inv(Second)), Mul(Inv(Second), Meter),
     Mul(Meter, Inv(Meter)), Mul(Mul(Meter, Meter), Meter),
     Inv(Mul(Mul(Second, Meter), Second))}
RenderTys ==
    UnitTys(RenderLeaves, MaxRenderSize) \cup RenderClosed
        \cup {Mul(ParamTyOf("f", 0), Inv(Second)), Mul(Inv(ParamTyOf("f", 0)), Meter)}

InitRender ==
    /\ \E u \in RenderTys, v \in RenderTys :
          tables = [id \in Fns |-> IF id = "f" THEN Tables(FALSE, SingleBody("f", u, v))
                                   ELSE Tables(FALSE, OtherExpr(<<>>))]
    /\ analysed = {}
    /\ diags = <<>>
    /\ compared = [id \in Fns |-> <<>>]
    /\ kept = [id \in Fns |-> <<>>]
    /\ panicked = {}
    /\ ran = <<>>
    /\ \E unit \in RenderClosed : display = [unit |-> unit, out |-> <<>>]
    /\ active = <<>>
    /\ arith = NoArith
    /\ runtime = NoRuntime

NextRender ==
    \/ \E id \in DOMAIN tables : TypeckTablesOf(id)
    \/ ToStringCall

SpecRender == InitRender /\ [][NextRender]_vars

(* The calls of add_to_runtime: up to MaxCalls of them, each in positive   *)
(* or negative position, for base units, the identity, and nestings of the *)
(* product and the inverse of unit.rs and of logics.rs.                    *)
MaxCalls == 3
RuntimeTys ==
    {Meter, Second, Dimensionless, PDimensionless, Inv(Meter), PInv(Second),
     Mul(Meter, Second), PMul(Meter, Inv(Meter)), Mul(PInv(Second), Inv(Inv(Meter))),
     Inv(PMul(Meter, Meter)), PMul(Mul(Second, Meter), PInv(Mul(Meter, Second)))}

(* U::add_to_runtime(&mut repr, positive) for one of the unit types, on    *)
(* the RuntimeUnit as the calls before left it.                            *)
AddToRuntimeCall ==
    /\ Len(runtime.calls) < MaxCalls
    /\ runtime.out = <<>>
    /\ \E ty \in RuntimeTys, positive \in BOOLEAN :
          runtime' = [runtime EXCEPT
                         !.repr = AddToRuntime(@, ty, positive),
                         !.calls = Append(@, [ty |-> ty, positive |-> positive])]
    /\ UNCHANGED <<tables, analysed, diags, compared, kept, panicked, ran, display, active,
                   arith>>

(* repr.to_string() *)
RuntimeToString ==
    /\ runtime.out = <<>>
    /\ \E order \in Perms(DOMAIN runtime.repr) :
          runtime' = [runtime EXCEPT !.out = <<ToStringOf(runtime.repr, order)>>]
    /\ UNCHANGED <<tables, analysed, diags, compared, kept, panicked, ran, display, active,
                   arith>>

InitRuntime ==
    /\ tables = [id \in Fns |-> Tables(FALSE, OtherExpr(<<>>))]
    /\ analysed = {}
    /\ diags = <<>>
    /\ compared = [id \in Fns |-> <<>>]
    /\ kept = [id \in Fns |-> <<>>]
    /\ panicked = {}
    /\ ran = <<>>
    /\ display = NoDisplay
    /\ active = <<>>
    /\ arith = NoArith
    /\ runtime = NoRuntime

NextRuntime == AddToRuntimeCall \/ RuntimeToString

SpecRuntime == InitRuntime /\ [][NextRuntime]_vars

(* The bodies with marked types of the wrong arity: one unify call of f    *)
(* between units built from Product0, Inverse0 and units of the library.   *)
ArityTys ==
    {Product0, Inverse0, Meter, Dimensionless, Mul(Product0, Meter), Inv(Inverse0),
     Mul(Meter, Inverse0), Mul(Meter, Inv(Second))}

InitArity ==
    /\ \E u \in ArityTys, v \in ArityTys, gb \in GBodies :
          tables = [id \in Fns |-> IF id = "f" THEN Tables(FALSE, SingleBody("f", u, v))
                                   ELSE Tables(FALSE, gb)]
    /\ analysed = {}
    /\ diags = <<>>
    /\ compared = [id \in Fns |-> <<>>]
    /\ kept = [id \in Fns |-> <<>>]
    /\ panicked = {}
    /\ ran = <<>>
    /\ display = NoDisplay
    /\ active = <<>>
    /\ arith = NoArith
    /\ runtime = NoRuntime

SpecArity == InitArity /\ [][Next]_vars

(* The measures the operators are applied to. *)
ArithValues == {TMin, -7, -1, 0, 2, 3, TMax}
ArithUnits == {Dimensionless, Meter, Second, Inv(Second), Mul(Meter, Second)}

InitArith ==
    /\ tables = [id \in Fns |-> Tables(FALSE, OtherExpr(<<>>))]
    /\ analysed = {}
    /\ diags = <<>>
    /\ compared = [id \in Fns |-> <<>>]
    /\ kept = [id \in Fns |-> <<>>]
    /\ panicked = {}
    /\ ran = <<>>
    /\ display = NoDisplay
    /\ active = <<>>
    /\ \E x \in ArithValues, y \in ArithValues, u \in ArithUnits, v \in ArithUnits :
          arith = [a |-> MeasureNew(x, u), b |-> MeasureNew(y, v), out |-> <<>>]
    /\ runtime = NoRuntime

NextArith == MeasureMul \/ MeasureDiv \/ ScalarMul \/ ScalarDiv

SpecArith == InitArith /\ [][NextArith]_vars

----------------------------------------------------------------------------
(* Vocabulary of the properties. *)

(* A call site of unify: [span, u, v] for a call from u to v. *)
CallSite(expr) ==
    [span |-> expr.span, u |-> TypeAt(expr.substs, 1), v |-> TypeAt(expr.substs, 2)]

RECURSIVE CallsOutsideClosures(_)
CallsOutsideClosures(expr) ==
    IF expr.node = "ExprClosure" THEN {}
    ELSE (IF expr.callee = "yaiouom::Measure::unify" THEN {expr} ELSE {})
         \cup UNION {CallsOutsideClosures(expr.kids[i]) : i \in DOMAIN expr.kids}

(* The unify call sites of a body written in method form, x.unify(), in    *)
(* the body itself; those written in path form; and those written in the   *)
(* body of a closure of the body.                                          *)
Sites(expr) ==
    {CallSite(call) : call \in {c \in CallsOutsideClosures(expr) : c.node = "ExprMethodCall"}}
PathSites(expr) ==
    {CallSite(call) : call \in {c \in CallsOutsideClosures(expr) : c.node = "ExprCall"}}
ClosureSites(expr) ==
    {CallSite(call) : call \in UnifyCalls(expr) \ CallsOutsideClosures(expr)}

IsMul(ty) == ty.k = "adt" /\ ty.id = "yaiouom::Mul"
IsInv(ty) == ty.k = "adt" /\ ty.id = "yaiouom::Inv"
IsIdentity(ty) == ty.k = "adt" /\ ty.id = "yaiouom::Dimensionless"
IsBase(ty) == ty.k = "adt" /\ ~IsMul(ty) /\ ~IsInv(ty) /\ ~IsIdentity(ty)
IsGenerator(ty) == IsBase(ty) \/ ty.k = "param"

RECURSIVE Classifies(_)
(* The unit type is built from products, inverses, the identity and        *)
(* generators only.                                                        *)
Classifies(ty) ==
    \/ IsGenerator(ty)
    \/ IsIdentity(ty)
    \/ (IsMul(ty) \/ IsInv(ty)) /\ \A i \in DOMAIN ty.args : Classifies(ty.args[i])

RECURSIVE Generators(_)
Generators(ty) ==
    IF IsGenerator(ty) THEN {ty}
    ELSE UNION {Generators(ty.args[i]) : i \in DOMAIN ty.args}

RECURSIVE NetExponent(_, _)
(* Occurrences of generator g under an even number of inverses, minus the  *)
(* occurrences under an odd number.                                        *)
NetExponent(g, ty) ==
    IF ty = g THEN 1
    ELSE IF IsMul(ty) THEN NetExponent(g, ty.args[1]) + NetExponent(g, ty.args[2])
    ELSE IF IsInv(ty) THEN 0 - NetExponent(g, ty.args[1])
    ELSE 0

(* The normalized form of a unit type: generator -> nonzero net exponent. *)
NormalizedForm(ty) ==
    [g \in {h \in Generators(ty) : NetExponent(h, ty) # 0} |-> NetExponent(g, ty)]

(* The constraint kept for the call at `span`, and the number of           *)
(* diagnostics emitted for it.                                             *)
Recorded(id, span) == \E i \in DOMAIN kept[id] : kept[id][i].span = span
DiagnosticsAt(span) == Cardinality({i \in DOMAIN diags : diags[i].span = span})

(* The body of id was walked to its end. *)
Walked(id) == id \in analysed /\ id \notin panicked /\ ~tables[id].tainted_by_errors

(* C1: for every unify call whose two sides classify, a constraint is      *)
(* recorded if and only if the normalized forms of the two sides differ;   *)
(* nothing is recorded for a call whose normalized forms are equal.        *)
C1_RecordedIffNormalizedFormsDiffer ==
    \A id \in Fns : Walked(id) =>
        \A s \in Sites(tables[id].body) :
            Classifies(s.u) /\ Classifies(s.v) =>
                /\ Recorded(id, s.span) <=> NormalizedForm(s.u) # NormalizedForm(s.v)
                /\ Cardinality({i \in DOMAIN kept[id] : kept[id][i].span = s.span}) <= 1

(* f walked with a call between two different types of equal normalized    *)
(* form, which is not recorded, and g walked with a recorded call.         *)
C1_Witness ==
    /\ Walked("f") /\ Walked("g")
    /\ \E s \in Sites(tables["f"].body) :
          s.u # s.v /\ NormalizedForm(s.u) = NormalizedForm(s.v) /\ ~Recorded("f", s.span)
    /\ \E s \in Sites(tables["g"].body) :
          NormalizedForm(s.u) # NormalizedForm(s.v) /\ Recorded("g", s.span)

(* C2: analysing a body emits exactly one diagnostic for each of its unify *)
(* call sites whose sides mismatch and none for any other call site; every *)
(* diagnostic belongs to a call site of an analysed body.  Each call of a  *)
(* chain is judged by its own two sides.                                   *)
C2_OneDiagnosticPerMismatch ==
    /\ \A id \in Fns : Walked(id) =>
          \A s \in Sites(tables[id].body) :
              DiagnosticsAt(s.span) =
                  IF /\ Classifies(s.u) /\ Classifies(s.v)
                     /\ NormalizedForm(s.u) # NormalizedForm(s.v)
                  THEN 1 ELSE 0
    /\ \A i \in DOMAIN diags :
          \E id \in analysed : \E s \in Sites(tables[id].body) :
              /\ diags[i].span = s.span
              /\ diags[i].decl_span = HirSpan(id)
    /\ Len(diags) =
          Cardinality({sp \in {diags[i].span : i \in DOMAIN diags} : TRUE})

(* A chain x.unify::<W>().unify() whose inner call mismatches and whose    *)
(* outer call is sound: one diagnostic, at the inner call.                 *)
C2_Witness ==
    /\ Walked("f")
    /\ \E s, t \in Sites(tables["f"].body) :
          /\ s.span = "f:1" /\ t.span = "f:2" /\ t.v = s.u
          /\ DiagnosticsAt(s.span) = 0
          /\ DiagnosticsAt(t.span) = 1

----------------------------------------------------------------------------
(* What the two normalizers computed: the checker's tables at the moment   *)
(* the two sides of a call were compared, and the runtime representations  *)
(* Measure::unify built during a run.                                      *)

WasCompared(id, span) == \E i \in DOMAIN compared[id] : compared[id][i].span = span
ComparedAt(id, span) ==
    compared[id][CHOOSE i \in DOMAIN compared[id] : compared[id][i].span = span]

(* [ty, exps]: the unit type of a side and the exponents the checker held  *)
(* for it when the call was compared.                                      *)
Sides(id) ==
    LET done == {s \in Sites(tables[id].body) : WasCompared(id, s.span)}
    IN  {[ty |-> s.u, exps |-> Exps(ComparedAt(id, s.span).left)] : s \in done}
        \cup {[ty |-> s.v, exps |-> Exps(ComparedAt(id, s.span).right)] : s \in done}

RuntimeExps(repr) == [t \in DOMAIN repr |-> repr[t].n]

(* [ty, exps]: the instantiated unit type of a side and the exponents of   *)
(* the runtime representation built for it.                                *)
RunSides ==
    IF ran = <<>> THEN {}
    ELSE LET run == ran[1]
             at(i) == CHOOSE s \in Sites(tables["f"].body) : s.span = run.log[i].span
         IN  {[ty |-> Instantiate(at(i).u, run.inst),
               exps |-> RuntimeExps(run.log[i].from)] : i \in DOMAIN run.log}
             \cup {[ty |-> Instantiate(at(i).v, run.inst),
                    exps |-> RuntimeExps(run.log[i].to)] : i \in DOMAIN run.log}

(* Pointwise sum of two exponent maps, keys whose sum is 0 absent. *)
PointwiseSum(e1, e2) ==
    LET at(e, g) == IF g \in DOMAIN e THEN e[g] ELSE 0
        sum(g) == at(e1, g) + at(e2, g)
    IN  [g \in {h \in (DOMAIN e1) \cup (DOMAIN e2) : sum(h) # 0} |-> sum(g)]

Negated(e) == [g \in DOMAIN e |-> 0 - e[g]]

ProductLaw(sides) ==
    \A z \in sides : IsMul(z.ty) =>
        \A x \in sides : x.ty = z.ty.args[1] =>
            \A y \in sides : y.ty = z.ty.args[2] =>
                z.exps = PointwiseSum(x.exps, y.exps)

(* C3: whenever the normalizer has normalized A, B and Mul<A, B>, the form *)
(* of the product is the pointwise sum of the exponents of the forms of A  *)
(* and B, with the generators whose sum is 0 absent; for the checker's     *)
(* tables of every analysed body and for the runtime representations.      *)
C3_ProductIsPointwiseSum ==
    /\ \A id \in Fns : ProductLaw(Sides(id))
    /\ ProductLaw(RunSides)

(* f analysed with two products whose factors were normalized: in one a   *)
(* generator of both factors cancels; in the other a generator of both     *)
(* factors adds up to 2 beside a generator of the first factor only.       *)
C3_Witness ==
    /\ Walked("f")
    /\ \E x, y, z \in Sides("f") :
          /\ z.ty = Mul(x.ty, y.ty)
          /\ \E g \in (DOMAIN x.exps) \cap (DOMAIN y.exps) : g \notin DOMAIN z.exps
    /\ \E x, y, z \in Sides("f") :
          /\ z.ty = Mul(x.ty, y.ty)
          /\ \E g \in (DOMAIN x.exps) \cap (DOMAIN y.exps) :
                g \in DOMAIN z.exps /\ z.exps[g] = 2
          /\ \E g \in (DOMAIN x.exps) \ (DOMAIN y.exps) : g \in DOMAIN z.exps

InverseLaw(sides) ==
    \A z \in sides : IsInv(z.ty) =>
        \A x \in sides : x.ty = z.ty.args[1] => z.exps = Negated(x.exps)

RECURSIVE InvDepth(_)
InvDepth(ty) == IF IsInv(ty) THEN 1 + InvDepth(ty.args[1]) ELSE 0

RECURSIVE InvCore(_)
InvCore(ty) == IF IsInv(ty) THEN InvCore(ty.args[1]) ELSE ty

ParitySign(ty) == IF InvDepth(ty) % 2 = 0 THEN 1 ELSE 0 - 1

(* C4: the form of Inv<A> is the form of A with the sign of every exponent *)
(* flipped, and a generator under k nested Inv has exponent +1 when k is   *)
(* even and -1 when k is odd; for the checker's tables and for the         *)
(* runtime representations.                                                *)
C4_InverseNegates ==
    /\ \A id \in Fns :
          /\ InverseLaw(Sides(id))
          /\ \A x \in Sides(id) :
                IsGenerator(InvCore(x.ty)) => x.exps = (InvCore(x.ty) :> ParitySign(x.ty))
    /\ InverseLaw(RunSides)
    /\ \A x \in RunSides :
          IsBase(InvCore(x.ty)) => x.exps = (InvCore(x.ty).id :> ParitySign(x.ty))

(* f analysed with a generator under three and under four nested Inv.     *)
C4_Witness ==
    /\ Walked("f")
    /\ \E x, y \in Sides("f") :
          /\ IsGenerator(InvCore(x.ty)) /\ InvDepth(x.ty) = 3
          /\ x.exps = (InvCore(x.ty) :> 0 - 1)
          /\ y.ty = Inv(x.ty) /\ y.exps = (InvCore(x.ty) :> 1)

IsCancellingPair(ty) ==
    /\ IsMul(ty) /\ IsGenerator(ty.args[1]) /\ ty.args[2] = Inv(ty.args[1])

(* The call goes from Mul<Mul<X, Y>, Inv<Y>> to X. *)
IsCancellingCall(s) ==
    /\ IsMul(s.u) /\ IsMul(s.u.args[1]) /\ IsInv(s.u.args[2])
    /\ s.u.args[1].args[1] = s.v
    /\ s.u.args[2].args[1] = s.u.args[1].args[2]

(* C5: Mul<g, Inv<g>> normalizes to the empty map for every generator g,   *)
(* in the checker and at run time; a unify from Mul<Mul<X, Y>, Inv<Y>> to  *)
(* X (m * s * s^-1 to m) is judged sound: the two sides compared are equal *)
(* maps, nothing is kept and no diagnostic is emitted.                     *)
C5_CancellationIsSound ==
    /\ \A id \in Fns : \A x \in Sides(id) :
          IsCancellingPair(x.ty) => x.exps = Exps(EmptyTable)
    /\ \A x \in RunSides : IsCancellingPair(x.ty) => x.exps = RuntimeExps(RuntimeUnitNew)
    /\ \A id \in Fns : Walked(id) =>
          \A s \in Sites(tables[id].body) :
              IsCancellingCall(s) =>
                  /\ \A t \in DOMAIN ComparedAt(id, s.span).left :
                        ComparedAt(id, s.span).left[t].n # 0
                  /\ Exps(ComparedAt(id, s.span).left) = Exps(ComparedAt(id, s.span).right)
                  /\ ~Recorded(id, s.span)
                  /\ DiagnosticsAt(s.span) = 0
    /\ ran # <<>> =>
          \A i \in DOMAIN ran[1].log :
              \A s \in Sites(tables["f"].body) :
                  s.span = ran[1].log[i].span /\ IsCancellingCall(s) =>
                      ran[1].log[i].from = ran[1].log[i].to

(* f analysed with the call from m * s * s^-1 to m and with m * m^-1       *)
(* normalized.                                                             *)
C5_Witness ==
    /\ Walked("f")
    /\ \E s \in Sites(tables["f"].body) :
          /\ s.u = Mul(Mul(Meter, Second), Inv(Second)) /\ s.v = Meter
          /\ DOMAIN ComparedAt("f", s.span).left = {Meter}
    /\ \E x \in Sides("f") : x.ty = Mul(Meter, Inv(Meter)) /\ DOMAIN x.exps = {}

SwapLaw(sides) ==
    \A x \in sides : IsMul(x.ty) =>
        \A y \in sides : y.ty = Mul(x.ty.args[2], x.ty.args[1]) => x.exps = y.exps

NestLaw(sides) ==
    \A x \in sides : (IsMul(x.ty) /\ IsMul(x.ty.args[1])) =>
        \A y \in sides :
            y.ty = Mul(x.ty.args[1].args[1], Mul(x.ty.args[1].args[2], x.ty.args[2]))
                => x.exps = y.exps

IsReorderedCall(s) ==
    /\ IsMul(s.u) /\ IsMul(s.v)
    /\ \/ s.v = Mul(s.u.args[2], s.u.args[1])
       \/ /\ IsMul(s.u.args[1])
          /\ s.v = Mul(s.u.args[1].args[1], Mul(s.u.args[1].args[2], s.u.args[2]))

(* C6: Mul<A, B> and Mul<B, A> have the same form, and so have             *)
(* Mul<Mul<A, B>, C> and Mul<A, Mul<B, C>>, in the checker and at run      *)
(* time; a unify between two such types is sound: no constraint is kept    *)
(* and no diagnostic is emitted.                                           *)
C6_ProductOrderAndNestingIrrelevant ==
    /\ \A id \in Fns : SwapLaw(Sides(id)) /\ NestLaw(Sides(id))
    /\ SwapLaw(RunSides) /\ NestLaw(RunSides)
    /\ \A id \in Fns : Walked(id) =>
          \A s \in Sites(tables[id].body) :
              IsReorderedCall(s) => ~Recorded(id, s.span) /\ DiagnosticsAt(s.span) = 0

(* f analysed with the call from meter * second^-1 to second^-1 * meter    *)
(* and with a triple product of three different types nested both ways.    *)
C6_Witness ==
    /\ Walked("f")
    /\ \E s, t \in Sites(tables["f"].body) :
          /\ s.u = Mul(Meter, Inv(Second)) /\ s.v = Mul(Inv(Second), Meter)
          /\ ~Recorded("f", s.span)
          /\ IsMul(t.u) /\ IsMul(t.u.args[1])
          /\ t.v = Mul(t.u.args[1].args[1], Mul(t.u.args[1].args[2], t.u.args[2]))
          /\ Cardinality({t.u.args[1].args[1], t.u.args[1].args[2], t.u.args[2]}) = 3
          /\ Cardinality(DOMAIN ComparedAt("f", t.span).left) = 3
          /\ ~Recorded("f", t.span)

NoZeroExponent(table) == \A t \in DOMAIN table : table[t].n # 0

(* C7: in every constraint, at the comparison of its two sides and when it *)
(* is kept for reporting, no key of either side has exponent 0.            *)
C7_NoZeroExponentWhenCompared ==
    \A id \in Fns :
        /\ \A i \in DOMAIN compared[id] :
              NoZeroExponent(compared[id][i].left) /\ NoZeroExponent(compared[id][i].right)
        /\ \A i \in DOMAIN kept[id] :
              NoZeroExponent(kept[id][i].left) /\ NoZeroExponent(kept[id][i].right)

(* f analysed with a kept constraint whose source and target each mention  *)
(* a generator that cancels; the kept tables do not hold it.               *)
C7_Witness ==
    /\ Walked("f")
    /\ \E s \in Sites(tables["f"].body) :
          /\ Recorded("f", s.span)
          /\ \E g \in Generators(s.u) :
                NetExponent(g, s.u) = 0 /\ g \notin DOMAIN ComparedAt("f", s.span).left
          /\ \E g \in Generators(s.v) :
                NetExponent(g, s.v) = 0 /\ g \notin DOMAIN ComparedAt("f", s.span).right

RECURSIVE Swaps(_, _)
(* The pairs of base units at which two unit types of the same shape       *)
(* differ, position by position; two entries when the shapes differ.       *)
Swaps(a, b) ==
    IF a = b THEN <<>>
    ELSE IF IsBase(a) /\ IsBase(b) THEN << <<a, b>> >>
    ELSE IF IsMul(a) /\ IsMul(b)
    THEN Swaps(a.args[1], b.args[1]) \o Swaps(a.args[2], b.args[2])
    ELSE IF IsInv(a) /\ IsInv(b) THEN Swaps(a.args[1], b.args[1])
    ELSE << <<a, b>>, <<a, b>> >>

(* b is a with one occurrence of a base unit replaced by another base unit *)
OneBaseUnitReplaced(a, b) == Len(Swaps(a, b)) = 1

(* C8: a unify whose two sides differ only by one base unit replaced by a  *)
(* distinct base unit, of the same NAME or not, is reported by the checker *)
(* with exactly one diagnostic, and at run time the two representations    *)
(* are unequal, so that the debug assertion fails.                         *)
C8_BaseUnitsAreNominal ==
    /\ \A id \in Fns : Walked(id) =>
          \A s \in Sites(tables[id].body) :
              OneBaseUnitReplaced(s.u, s.v) =>
                  /\ Recorded(id, s.span)
                  /\ DiagnosticsAt(s.span) = 1
    /\ ran # <<>> =>
          \A i \in DOMAIN ran[1].log :
              \A s \in Sites(tables["f"].body) :
                  s.span = ran[1].log[i].span /\ OneBaseUnitReplaced(s.u, s.v) =>
                      /\ ran[1].log[i].from # ran[1].log[i].to
                      /\ ran[1].log[i].panic = ran[1].debug_assertions

(* The vanilla build ran a unify between two types that differ by two base *)
(* units of the same NAME, under an inverse, and the assertion failed.     *)
C8_Witness ==
    /\ ran # <<>> /\ analysed = {}
    /\ ran[1].debug_assertions
    /\ \E i \in DOMAIN ran[1].log :
          \E s \in Sites(tables["f"].body) :
              /\ s.span = ran[1].log[i].span
              /\ Len(Swaps(s.u, s.v)) = 1
              /\ BaseUnitName(Swaps(s.u, s.v)[1][1].id) = BaseUnitName(Swaps(s.u, s.v)[1][2].id)
              /\ IsMul(s.u)
              /\ ran[1].log[i].panic

AOverB(fn) == Mul(ParamTyOf(fn, 0), Inv(ParamTyOf(fn, 1)))
AOverSecond(fn) == Mul(ParamTyOf(fn, 0), Inv(Second))

(* C10: in a generic function a unify from A * B^-1 to A * B^-1, alone or  *)
(* in a chain, gets no diagnostic; a unify between A * B^-1 and            *)
(* A * second^-1 gets one, in either direction; a unify from a type        *)
(* parameter to a generator gets a diagnostic unless the generator is that *)
(* parameter.                                                              *)
C10_TypeParametersAreOpaque ==
    /\ \A id \in Fns : Walked(id) =>
          \A s \in Sites(tables[id].body) :
              /\ (s.u = AOverB(id) /\ s.v = AOverB(id)) => DiagnosticsAt(s.span) = 0
              /\ (s.u = AOverB(id) /\ s.v = AOverSecond(id)) => DiagnosticsAt(s.span) = 1
              /\ (s.u = AOverSecond(id) /\ s.v = AOverB(id)) => DiagnosticsAt(s.span) = 1
              /\ (s.u.k = "param" /\ IsGenerator(s.v)) =>
                    DiagnosticsAt(s.span) = IF s.u = s.v THEN 0 ELSE 1

(* f analysed with the chain of bad_unify_annotations.rs: from A * B^-1 to *)
(* A * second^-1 and back, a diagnostic at each call; g analysed with a    *)
(* unify from A to A, without diagnostic.                                  *)
C10_Witness ==
    /\ Walked("f") /\ Walked("g")
    /\ \E s, t \in Sites(tables["f"].body) :
          /\ s.u = AOverB("f") /\ s.v = AOverSecond("f") /\ DiagnosticsAt(s.span) = 1
          /\ t.u = AOverSecond("f") /\ t.v = AOverB("f") /\ DiagnosticsAt(t.span) = 1
    /\ \E s \in Sites(tables["g"].body) :
          s.u.k = "param" /\ s.u = s.v /\ DiagnosticsAt(s.span) = 0

----------------------------------------------------------------------------
(* Types that do not classify. *)

RECURSIVE ContainsError(_)
ContainsError(ty) ==
    ty.k = "error" \/ \E i \in DOMAIN ty.args : ContainsError(ty.args[i])

RECURSIVE ContainsOtherShape(_)
(* Somewhere in the type stands a type that is neither nominal, nor a type *)
(* parameter, nor the error type: a primitive here.                        *)
ContainsOtherShape(ty) ==
    ty.k = "prim" \/ \E i \in DOMAIN ty.args : ContainsOtherShape(ty.args[i])

(* The declaration is one whose body the pass walks: analysed, a function  *)
(* or a method, with tables that are not tainted.                          *)
IsFnLike(id) == ItemKind(id) \in {"ItemFn", "ImplItemMethod"}
Entered(id) == id \in analysed /\ IsFnLike(id) /\ ~tables[id].tainted_by_errors

(* What a call site with classifying sides must get. *)
JudgedNormally(id, s) ==
    /\ Recorded(id, s.span) <=> NormalizedForm(s.u) # NormalizedForm(s.v)
    /\ DiagnosticsAt(s.span) = IF NormalizedForm(s.u) # NormalizedForm(s.v) THEN 1 ELSE 0

(* C11: a unify call one side of which holds an error type gets no         *)
(* diagnostic, keeps no constraint and does not make the pass fail, and    *)
(* the other calls of the body with classifying sides are judged normally; *)
(* stated for the bodies whose other calls hold no type of another shape.  *)
C11_ErrorTypeSkipsTheCallOnly ==
    \A id \in DOMAIN tables : Entered(id) =>
        \A s \in Sites(tables[id].body) :
            (/\ ContainsError(s.u) \/ ContainsError(s.v)
             /\ \A t \in Sites(tables[id].body) \ {s} :
                   ~ContainsOtherShape(t.u) /\ ~ContainsOtherShape(t.v))
            => /\ id \notin panicked
               /\ ~Recorded(id, s.span)
               /\ DiagnosticsAt(s.span) = 0
               /\ \A t \in Sites(tables[id].body) \ {s} :
                     Classifies(t.u) /\ Classifies(t.v) => JudgedNormally(id, t)

(* C12: a unify call one side of which holds a type of another shape (a    *)
(* primitive) never makes the pass panic; its constraint is abandoned.     *)
C12_OtherShapeAbandonsTheConstraintOnly ==
    \A id \in DOMAIN tables : Entered(id) =>
        \A s \in Sites(tables[id].body) :
            ContainsOtherShape(s.u) \/ ContainsOtherShape(s.v) =>
                /\ id \notin panicked
                /\ ~Recorded(id, s.span)
                /\ DiagnosticsAt(s.span) = 0

DiagnosticsOfDecl(id) == {i \in DOMAIN diags : diags[i].decl_span = HirSpan(id)}

(* C13: analysing a declaration whose tables are tainted by errors emits   *)
(* no diagnostic and visits no unify call: nothing is compared, nothing is *)
(* kept, and the pass does not fail even on a call it would panic on.      *)
C13_TaintedBodyIsSkipped ==
    \A id \in DOMAIN tables :
        id \in analysed /\ tables[id].tainted_by_errors =>
            /\ compared[id] = <<>>
            /\ kept[id] = <<>>
            /\ id \notin panicked
            /\ DiagnosticsOfDecl(id) = {}
            /\ \A call \in UnifyCalls(tables[id].body) : DiagnosticsAt(call.span) = 0

(* A function with tainted tables and two mismatching unify calls was      *)
(* analysed.                                                               *)
C13_Witness ==
    /\ "f" \in analysed /\ tables["f"].tainted_by_errors
    /\ \E s, t \in Sites(tables["f"].body) :
          /\ s.span # t.span
          /\ Classifies(s.u) /\ Classifies(s.v) /\ NormalizedForm(s.u) # NormalizedForm(s.v)
          /\ Classifies(t.u) /\ Classifies(t.v) /\ NormalizedForm(t.u) # NormalizedForm(t.v)
    /\ diags = <<>>

(* C14: the query runs for a function and for the closure written in it;   *)
(* the invocation on the closure's def id does nothing, and every unify    *)
(* call site of the function's tables gets at most one diagnostic in       *)
(* total.                                                                  *)
C14_ClosureInvocationDoesNothing ==
    /\ ClosureOfF \in DOMAIN tables /\ ClosureOfF \in analysed =>
          /\ ClosureBaseDefId(ClosureOfF) # ClosureOfF
          /\ compared[ClosureOfF] = <<>>
          /\ kept[ClosureOfF] = <<>>
          /\ ClosureOfF \notin panicked
          /\ DiagnosticsOfDecl(ClosureOfF) = {}
    /\ \A id \in DOMAIN tables :
          \A call \in UnifyCalls(tables[id].body) : DiagnosticsAt(call.span) <= 1

(* f and its closure were both analysed, in either order; a mismatching    *)
(* call of f's body was reported, once.                                    *)
C14_Witness ==
    /\ ClosureOfF \in DOMAIN tables
    /\ {"f", ClosureOfF} \subseteq analysed
    /\ \E s \in Sites(tables["f"].body) : DiagnosticsAt(s.span) = 1
    /\ Len(diags) = 1

(* C15: a unify call with classifying sides in the body of a constant is   *)
(* judged like one in a function: a constraint is kept and one diagnostic  *)
(* emitted exactly when the normalized forms differ.                       *)
C15_ConstantBodiesAreChecked ==
    \A id \in DOMAIN tables :
        (/\ id \in analysed /\ id \notin panicked
         /\ ItemKind(id) \in {"ItemConst", "ItemStatic"}
         /\ ~tables[id].tainted_by_errors)
        => \A s \in Sites(tables[id].body) :
              Classifies(s.u) /\ Classifies(s.v) => JudgedNormally(id, s)

(* C16: a unify call with classifying sides written in path form,          *)
(* Measure::unify(x), in a walked body is judged like one written in       *)
(* method form.                                                            *)
C16_PathCallsAreChecked ==
    \A id \in DOMAIN tables :
        Entered(id) /\ id \notin panicked =>
            \A s \in PathSites(tables[id].body) :
                Classifies(s.u) /\ Classifies(s.v) => JudgedNormally(id, s)

----------------------------------------------------------------------------
(* The unify call of f's body the i-th entry of the run's log is about,    *)
(* and its two units once f's type parameters are instantiated.            *)
RunCall(i) ==
    CHOOSE c \in UnifyCalls(tables["f"].body) : c.span = ran[1].log[i].span
RunFrom(i) == Instantiate(TypeAt(RunCall(i).substs, 1), ran[1].inst)
RunTo(i) == Instantiate(TypeAt(RunCall(i).substs, 2), ran[1].inst)

(* The runtime representation `repr` is the map base unit -> nonzero       *)
(* exponent of the closed unit type ty.                                    *)
Represents(repr, ty) ==
    /\ DOMAIN repr = {g.id : g \in DOMAIN NormalizedForm(ty)}
    /\ \A g \in DOMAIN NormalizedForm(ty) : repr[g.id].n = NormalizedForm(ty)[g]

(* C17: in a debug build a unify from U to V panics exactly when the maps  *)
(* base unit -> nonzero exponent of U and V differ; a unify that does not  *)
(* panic returns a measure of unit V with the value it was called on.      *)
C17_DebugUnifyPanicsIffRepresentationsDiffer ==
    ran # <<>> =>
        \A i \in DOMAIN ran[1].log :
            LET call == ran[1].log[i]
            IN  /\ Represents(call.from, RunFrom(i))
                /\ Represents(call.to, RunTo(i))
                /\ ran[1].debug_assertions =>
                      (call.panic <=> NormalizedForm(RunFrom(i)) # NormalizedForm(RunTo(i)))
                /\ ~call.panic =>
                      call.result = [value |-> ran[1].value, unit |-> RunTo(i)]

(* A debug run of a chain of two calls: the first, between units written   *)
(* differently, returns the value 7 it was called on; the second, between  *)
(* units with different representations, panics.                           *)
C17_Witness ==
    /\ ran # <<>>
    /\ ran[1].debug_assertions
    /\ Len(ran[1].log) = 2
    /\ ~ran[1].log[1].panic
    /\ TypeAt(RunCall(1).substs, 1) # TypeAt(RunCall(1).substs, 2)
    /\ ran[1].log[1].result.value = 7
    /\ ran[1].log[2].panic
    /\ ran[1].log[2].from # ran[1].log[2].to

----------------------------------------------------------------------------
(* The text of generator g with exponent n: its name alone for 1, its name *)
(* and exponent otherwise.                                                 *)
GeneratorText(g, n) ==
    IF n = 1 THEN BaseUnitName(g.id) ELSE BaseUnitName(g.id) \o "^" \o ToString(n)

RECURSIVE Joined(_, _)
(* The texts of the generators of form nf in the order p, " * " between. *)
Joined(nf, p) ==
    IF p = <<>> THEN ""
    ELSE GeneratorText(p[1], nf[p[1]])
         \o (IF Len(p) = 1 THEN "" ELSE " * ") \o Joined(nf, Tail(p))

(* In the order p no negative exponent stands before a positive one. *)
PositivesFirst(nf, p) ==
    \A i \in DOMAIN p : \A j \in DOMAIN p : (i < j) => ~(nf[p[i]] < 0 /\ nf[p[j]] > 0)

(* C18: whatever order the map is iterated in, to_string returns the       *)
(* generators of the unit, each once with its exponent, all the positive   *)
(* ones before all the negative ones; it returns "" for a dimensionless    *)
(* unit, and "m * s^-1" for Mul<Meter, Inv<Second>> and for                *)
(* Mul<Inv<Second>, Meter>.                                                *)
C18_ToStringPositivesBeforeNegatives ==
    (display.out # <<>>) =>
        LET out == display.out[1]
            nf == NormalizedForm(display.unit)
        IN  /\ ~out.panic
            /\ \E p \in Perms(DOMAIN nf) : PositivesFirst(nf, p) /\ out.text = Joined(nf, p)
            /\ (DOMAIN nf = {}) => out.text = ""
            /\ (display.unit \in {Mul(Meter, Inv(Second)), Mul(Inv(Second), Meter)})
                  => out.text = "m * s^-1"

(* Mul<Inv<Second>, Meter> displayed as "m * s^-1" when the map hands out  *)
(* Second before Meter.                                                    *)
C18_Witness ==
    /\ display.unit = Mul(Inv(Second), Meter)
    /\ display.out # <<>>
    /\ display.out[1].order = <<TypeIdOf(Second), TypeIdOf(Meter)>>
    /\ display.out[1].text = "m * s^-1"

----------------------------------------------------------------------------
(* The diagnostics a second run of the checker over the body of id may     *)
(* emit: a new session, a new visitor, new tables of exponents.            *)
SecondRun(id) == EmitAll(Analyze(id, tables[id]).constraints, HirSpan(id))

----------------------------------------------------------------------------
(* The diagnostics of the session about declaration id, in order. *)
DiagnosticsSeqOfDecl(id) == SelectSeq(diags, LAMBDA d : d.decl_span = HirSpan(id))

(* C20: however the invocations on different declarations are interleaved, *)
(* an invocation that has returned leaves for its declaration what the     *)
(* pass leaves when run alone from start to end: the same constraints      *)
(* compared and kept, and one of the sequences of diagnostics that run may *)
(* emit; a declaration whose invocation has not begun has nothing.         *)
C20_InterleavingKeepsEachDeclarationsDiagnostics ==
    \A id \in DOMAIN tables :
        LET alone == Analyze(id, tables[id])
        IN  /\ (id \in analysed /\ id \notin panicked) =>
                  /\ ~alone.panic
                  /\ compared[id] = alone.compared
                  /\ kept[id] = alone.constraints
                  /\ DiagnosticsSeqOfDecl(id) \in EmitAll(alone.constraints, HirSpan(id))
            /\ (id \in panicked) =>
                  /\ alone.panic
                  /\ compared[id] = alone.compared
                  /\ DiagnosticsSeqOfDecl(id) = <<>>
            /\ (id \notin analysed /\ id \notin DOMAIN active) =>
                  /\ compared[id] = <<>>
                  /\ kept[id] = <<>>
                  /\ DiagnosticsSeqOfDecl(id) = <<>>

(* f and g have both returned, and the diagnostic of g was emitted between *)
(* the two diagnostics of f.                                               *)
C20_Witness ==
    /\ {"f", "g"} \subseteq analysed
    /\ active = <<>>
    /\ Len(diags) = 3
    /\ diags[1].decl_span = HirSpan("f")
    /\ diags[2].decl_span = HirSpan("g")
    /\ diags[3].decl_span = HirSpan("f")

----------------------------------------------------------------------------
(* Every unify call of the crate, closures included, is between units with *)
(* the same normalized form.                                               *)
AllSound ==
    \A id \in DOMAIN tables : \A call \in UnifyCalls(tables[id].body) :
        /\ Classifies(CallSite(call).u)
        /\ Classifies(CallSite(call).v)
        /\ NormalizedForm(CallSite(call).u) = NormalizedForm(CallSite(call).v)

(* C21: the pass only reads: no step changes the tables of any             *)
(* declaration, whether the analysis emitted diagnostics, skipped the body *)
(* or found every call sound; and once a crate whose unify calls are all   *)
(* sound is fully analysed, the session holds no diagnostic and the pass   *)
(* has not panicked, so the build goes on as without the pass.             *)
C21_PassOnlyReadsTheTables ==
    /\ [][tables' = tables]_vars
    /\ []((AllSound /\ analysed = DOMAIN tables) => (diags = <<>> /\ panicked = {}))

(* A crate with two sound calls, analysed in full by the checker and then  *)
(* run, its tables being those the default provider gave.                  *)
C21_Witness ==
    /\ AllSound
    /\ analysed = DOMAIN tables
    /\ \E id \in DOMAIN tables : Cardinality(UnifyCalls(tables[id].body)) = 2
    /\ diags = <<>>
    /\ ran # <<>>

----------------------------------------------------------------------------
(* The quotient of x by y rounded toward zero, for y # 0. *)
Quotient(x, y) ==
    CHOOSE q \in TMin..(TMax + 1) :
        /\ (IF q < 0 THEN 0 - q ELSE q) * (IF y < 0 THEN 0 - y ELSE y)
              <= (IF x < 0 THEN 0 - x ELSE x)
        /\ (IF x < 0 THEN 0 - x ELSE x)
              < ((IF q < 0 THEN 0 - q ELSE q) + 1) * (IF y < 0 THEN 0 - y ELSE y)
        /\ (q # 0) => ((q < 0) <=> ((x < 0) # (y < 0)))

InRange(n) == TMin <= n /\ n <= TMax

(* C22: a * b has unit Mul<U, V> and value a.value * b.value; a / b has    *)
(* unit Mul<U, Inv<V>> and value a.value / b.value; a measure multiplied   *)
(* or divided by a bare number keeps its unit U.  The operator panics only *)
(* where the operator of the value type does: a result out of range under  *)
(* overflow checks, a division by zero.                                    *)
C22_ArithmeticComposesUnits ==
    (arith.out # <<>>) =>
        LET out == arith.out[1]
            a == arith.a
            b == arith.b
            product == a.value * b.value
            divides == b.value # 0 /\ InRange(Quotient(a.value, b.value))
        IN  /\ (out.op \in {"a * b", "a * n"}) =>
                  /\ out.panic <=> (out.overflow_checks /\ ~InRange(product))
                  /\ (~out.panic /\ InRange(product)) => out.result.value = product
                  /\ ~out.panic => InRange(out.result.value)
            /\ (out.op \in {"a / b", "a / n"}) =>
                  /\ out.panic <=> ~divides
                  /\ ~out.panic => out.result.value = Quotient(a.value, b.value)
            /\ (out.op = "a * b") => out.result.unit = Mul(a.unit, b.unit)
            /\ (out.op = "a / b") => out.result.unit = Mul(a.unit, Inv(b.unit))
            /\ (out.op \in {"a * n", "a / n"}) => out.result.unit = a.unit

(* -7 metres divided by 2 seconds: -3 of unit Mul<Meter, Inv<Second>>. *)
C22_Witness ==
    /\ arith.out # <<>>
    /\ arith.out[1].op = "a / b"
    /\ arith.a = MeasureNew(-7, Meter)
    /\ arith.b = MeasureNew(2, Second)
    /\ ~arith.out[1].panic
    /\ arith.out[1].result = MeasureNew(-3, Mul(Meter, Inv(Second)))

----------------------------------------------------------------------------
RECURSIVE HasWrongArity(_)
(* Somewhere in the type stands a type marked as the product with other    *)
(* than two type arguments, or marked as the inverse with other than one.  *)
HasWrongArity(ty) ==
    \/ /\ ty.k = "adt"
       /\ \/ /\ ContainsName(GetAttrs(ty.id), YAOIOUM_ATTR_COMBINATOR_MUL)
             /\ Len(ty.args) # 2
          \/ /\ ContainsName(GetAttrs(ty.id), YAOIOUM_ATTR_COMBINATOR_INV)
             /\ Len(ty.args) # 1
    \/ \E i \in DOMAIN ty.args : HasWrongArity(ty.args[i])

(* C23: a unify call a side of which holds a marked type of the wrong      *)
(* arity makes the pass fail: its constraint is never compared, it gets no *)
(* diagnostic.                                                             *)
C23_WrongArityIsAnInternalFailure ==
    \A id \in DOMAIN tables :
        Entered(id) =>
            \A s \in Sites(tables[id].body) :
                (HasWrongArity(s.u) \/ HasWrongArity(s.v)) =>
                    /\ id \in panicked
                    /\ ~WasCompared(id, s.span)
                    /\ DiagnosticsAt(s.span) = 0

----------------------------------------------------------------------------
(* The text of `name` with exponent n. *)
EntryText(name, n) == IF n = 1 THEN name ELSE name \o "^" \o ToString(n)

RECURSIVE JoinedTexts(_)
(* The texts, " * " between them. *)
JoinedTexts(texts) ==
    IF texts = <<>> THEN ""
    ELSE texts[1] \o (IF Len(texts) = 1 THEN "" ELSE " * ") \o JoinedTexts(Tail(texts))

(* `text` renders the unit type ty: the generators of its normalized form, *)
(* each once, in some order, under the names name(g).                      *)
Renders(text, ty, name(_)) ==
    LET nf == NormalizedForm(ty)
    IN  \E p \in Perms(DOMAIN nf) :
            text = JoinedTexts([i \in DOMAIN p |-> EntryText(name(p[i]), nf[p[i]])])

(* The call site of f a diagnostic is about. *)
SiteAt(span) == CHOOSE s \in Sites(tables["f"].body) : s.span = span

(* C24: the expected and the found side of every diagnostic, and the text  *)
(* of to_string, render the unit: every generator of the normalized form   *)
(* once, as its name for exponent 1 and as name^exponent otherwise, joined *)
(* by " * ", and no generator with exponent 0.                             *)
C24_RenderingOfASide ==
    /\ \A i \in DOMAIN diags :
          /\ Renders(diags[i].expected, SiteAt(diags[i].span).u,
                     LAMBDA g : DescribeName("f", g))
          /\ Renders(diags[i].found, SiteAt(diags[i].span).v,
                     LAMBDA g : DescribeName("f", g))
    /\ (display.out # <<>>) =>
          /\ ~display.out[1].panic
          /\ Renders(display.out[1].text, display.unit, LAMBDA g : BaseUnitName(g.id))

(* A diagnostic with a bare name, an exponent -1 and a " * ", for a unit   *)
(* whose other generator cancels, and a display of s^-2 * m^-1 or of       *)
(* m^-1 * s^-2.                                                            *)
C24_Witness ==
    /\ \E i \in DOMAIN diags :
          /\ SiteAt(diags[i].span).u = Mul(ParamTyOf("f", 0), Inv(Second))
          /\ diags[i].expected = "f::A * yaiouom::si::Second^-1"
          /\ SiteAt(diags[i].span).v = Mul(Meter, Inv(Meter))
          /\ diags[i].found = ""
    /\ display.unit = Inv(Mul(Mul(Second, Meter), Second))
    /\ display.out # <<>>
    /\ display.out[1].text \in {"s^-2 * m^-1", "m^-1 * s^-2"}

----------------------------------------------------------------------------
(* `text` renders ty with every generator of positive exponent before      *)
(* every generator of negative exponent.                                   *)
RendersPositivesFirst(text, ty, name(_)) ==
    LET nf == NormalizedForm(ty)
    IN  \E p \in Perms(DOMAIN nf) :
            /\ PositivesFirst(nf, p)
            /\ text = JoinedTexts([i \in DOMAIN p |-> EntryText(name(p[i]), nf[p[i]])])

(* C25: in the expected and in the found text of every diagnostic the      *)
(* generators with a positive exponent stand before those with a negative  *)
(* exponent, whatever the iteration order of the map.                      *)
C25_DiagnosticPositivesBeforeNegatives ==
    \A i \in DOMAIN diags :
        /\ RendersPositivesFirst(diags[i].expected, SiteAt(diags[i].span).u,
                                 LAMBDA g : DescribeName("f", g))
        /\ RendersPositivesFirst(diags[i].found, SiteAt(diags[i].span).v,
                                 LAMBDA g : DescribeName("f", g))

----------------------------------------------------------------------------
(* The comparisons made so far by the invocation on id. *)
ComparedLog(id) == IF id \in DOMAIN active THEN active[id].v.compared ELSE compared[id]

WasLogged(id, span) == \E i \in DOMAIN ComparedLog(id) : ComparedLog(id)[i].span = span

(* The state of an examined call site: Sound or Mismatch once its two      *)
(* sides were compared, Skipped when the walk went on without comparing    *)
(* them, Aborted when the walk ended there.                                *)
Outcome(id, span) ==
    LET log == ComparedLog(id)
        hits == {i \in DOMAIN log : log[i].span = span}
    IN  IF hits # {}
        THEN IF \A i \in hits : log[i].left = log[i].right THEN "Sound" ELSE "Mismatch"
        ELSE IF id \in panicked THEN "Aborted" ELSE "Skipped"

(* This step is the visit of the unify call at `span` by the invocation on *)
(* id.                                                                     *)
Examines(id, span) ==
    /\ id \in DOMAIN active
    /\ active[id].todo # <<>>
    /\ Head(active[id].todo).node = "ExprMethodCall"
    /\ Head(active[id].todo).callee = "yaiouom::Measure::unify"
    /\ Head(active[id].todo).span = span
    /\ (id \notin DOMAIN active' \/ active'[id].todo # active[id].todo)

(* The call sites the pass visits: those of the functions and methods. *)
VisitedSites ==
    {<<id, s.span>> : id \in {j \in DOMAIN tables : IsFnLike(j)},
                      s \in UNION {Sites(tables[j].body) : j \in DOMAIN tables}}

(* C26: the visit of a call site leaves it Sound, Mismatch or Skipped, a   *)
(* site is visited once and keeps its state, a site with a diagnostic is a *)
(* Mismatch with one diagnostic, and in the end every Mismatch has its     *)
(* diagnostic.                                                             *)
C26_EverySiteReachesOneTerminalState ==
    /\ [][\A x \in VisitedSites :
            Examines(x[1], x[2]) =>
                /\ ~WasLogged(x[1], x[2])
                /\ Outcome(x[1], x[2])' \in {"Sound", "Mismatch", "Skipped"}]_vars
    /\ [][\A x \in VisitedSites :
            WasLogged(x[1], x[2]) => Outcome(x[1], x[2])' = Outcome(x[1], x[2])]_vars
    /\ [](\A x \in VisitedSites :
            (x[2] \in {s.span : s \in Sites(tables[x[1]].body)} /\ DiagnosticsAt(x[2]) > 0) =>
                (Outcome(x[1], x[2]) = "Mismatch" /\ DiagnosticsAt(x[2]) = 1))
    /\ <>[](\A x \in VisitedSites :
            Outcome(x[1], x[2]) = "Mismatch" => DiagnosticsAt(x[2]) = 1)

----------------------------------------------------------------------------
(* The substitutions of <A, B> by closed unit expressions. *)
ClosedArgs == {Dimensionless, Meter, Inv(Second), Mul(Second, Inv(Meter))}
Substitutions == {<<a, b>> : a \in ClosedArgs, b \in ClosedArgs}

(* The checker compared the two sides of the call and kept nothing. *)
Accepted(id, s) == WasCompared(id, s.span) /\ ~Recorded(id, s.span)

(* C27: a unify the checker accepts between units over base units and     *)
(* type parameters has equal runtime representations of source and target *)
(* under every substitution of the type parameters by closed units, and   *)
(* no unify of a program built by the checker panics when it runs.        *)
C27_StaticAcceptImpliesRuntimeEqual ==
    /\ \A id \in Fns : Walked(id) =>
          \A s \in Sites(tables[id].body) :
              (Classifies(s.u) /\ Classifies(s.v) /\ Accepted(id, s)) =>
                  \A inst \in Substitutions :
                      AsRuntime(Instantiate(s.u, inst)) = AsRuntime(Instantiate(s.v, inst))
    /\ (ran # <<>> /\ analysed = DOMAIN tables /\ diags = <<>>) =>
          \A i \in DOMAIN ran[1].log : ~ran[1].log[i].panic

(* f, whose call from Mul<A, B> to Mul<B, A> the checker accepted, run in  *)
(* a debug build with <Meter, Second>: the assertion compared two equal    *)
(* representations of two generators.                                      *)
C27_Witness ==
    /\ Walked("f")
    /\ \E s \in Sites(tables["f"].body) :
          /\ s.u = Mul(ParamTyOf("f", 0), ParamTyOf("f", 1))
          /\ s.v = Mul(ParamTyOf("f", 1), ParamTyOf("f", 0))
          /\ Accepted("f", s)
    /\ analysed = DOMAIN tables
    /\ ran # <<>>
    /\ ran[1].debug_assertions
    /\ ran[1].inst = <<Meter, Second>>
    /\ ~ran[1].log[1].panic
    /\ Cardinality(DOMAIN ran[1].log[1].from) = 2

----------------------------------------------------------------------------
(* C28: after any sequence of add_to_runtime calls on a new RuntimeUnit no *)
(* entry of the map has exponent 0, and to_string does not panic.          *)
C28_NoZeroExponentInRuntimeUnit ==
    /\ \A t \in DOMAIN runtime.repr : runtime.repr[t].n # 0
    /\ runtime.out # <<>> => ~runtime.out[1].panic

(* Meter added, then Second in negative position and Meter again, then    *)
(* Meter taken away twice by the inverse of a product: the entry of Meter  *)
(* went 1, 2, 1 and was removed at 0, the map holds Second alone and       *)
(* to_string gives "s^-1".                                                 *)
C28_Witness ==
    /\ runtime.calls = << [ty |-> Meter, positive |-> TRUE],
                          [ty |-> Mul(PInv(Second), Inv(Inv(Meter))), positive |-> TRUE],
                          [ty |-> Inv(PMul(Meter, Meter)), positive |-> TRUE] >>
    /\ DOMAIN runtime.repr = {TypeIdOf(Second)}
    /\ runtime.out # <<>>
    /\ runtime.out[1].text = "s^-1"

----------------------------------------------------------------------------
(* C29: once a function and its closures are analysed, a unify call in the *)
(* body of one of its closures whose sides have different normalized forms *)
(* has exactly one diagnostic, and one whose sides agree has none.         *)
C29_ClosureBodiesAreChecked ==
    \A id \in DOMAIN tables :
        (Entered(id) /\ id \notin panicked /\ analysed = DOMAIN tables) =>
            \A s \in ClosureSites(tables[id].body) :
                (Classifies(s.u) /\ Classifies(s.v)) =>
                    DiagnosticsAt(s.span) =
                        IF NormalizedForm(s.u) # NormalizedForm(s.v) THEN 1 ELSE 0

----------------------------------------------------------------------------
(* The tables of the sides compared during the analysis of id. *)
ComparedTables(id) ==
    {compared[id][i].left : i \in DOMAIN compared[id]}
        \cup {compared[id][i].right : i \in DOMAIN compared[id]}

(* C30: within a declaration a generator has the same one span wherever it *)
(* is recorded, so two compared sides with the same generators and the     *)
(* same exponents are equal with their spans, and a constraint is kept     *)
(* exactly when the exponents of its sides differ.                         *)
C30_SpansNeverChangeTheVerdict ==
    \A id \in DOMAIN tables :
        /\ \A t1 \in ComparedTables(id), t2 \in ComparedTables(id) :
              \A g \in DOMAIN t1 \cap DOMAIN t2 :
                  t1[g].spans = t2[g].spans /\ Cardinality(t1[g].spans) = 1
        /\ \A i \in DOMAIN compared[id] :
              LET c == compared[id][i]
              IN  /\ (Exps(c.left) = Exps(c.right)) => (c.left = c.right)
                  /\ (id \notin panicked /\ id \in analysed) =>
                        (Recorded(id, c.span) <=> Exps(c.left) # Exps(c.right))

(* f compared Mul<A, Meter> with Mul<Meter, A>: two generators on each     *)
(* side, each with its span, and nothing kept.                             *)
C30_Witness ==
    /\ Walked("f")
    /\ \E s \in Sites(tables["f"].body) :
          /\ s.u = Mul(ParamTyOf("f", 0), Meter)
          /\ s.v = Mul(Meter, ParamTyOf("f", 0))
          /\ WasCompared("f", s.span)
          /\ Cardinality(DOMAIN ComparedAt("f", s.span).left) = 2
          /\ ComparedAt("f", s.span).left = ComparedAt("f", s.span).right
          /\ ComparedAt("f", s.span).left[Meter].spans # {}
          /\ ~Recorded("f", s.span)

============================================================================
